---- MODULE Spec2Model ----
(***************************************************************************)
(* A model of the WebAssembly native code manager of                       *)
(* src/wasm/wasm-code-manager.{h,cc}: DisjointAllocationPool, WasmCode,    *)
(* NativeModule, WasmCodeManager and NativeModuleModificationScope.        *)
(*                                                                         *)
(* Addresses are small naturals.  Address 0 is kNullAddress.  The address  *)
(* space the OS hands out consists of the pages 1..NumPages; page p covers *)
(* the addresses [p * AllocatePageSize, (p+1) * AllocatePageSize).         *)
(***************************************************************************)
EXTENDS Integers, Sequences, FiniteSets, TLC

\* ------------------------------------------------------------------------
\* Program constants (scaled down) and the bounds of the model.
\* ------------------------------------------------------------------------

\* kCodeAlignment, the granularity of AllocateForCode (scaled down).
kCodeAlignment == 2

\* AllocatePageSize(), a multiple of kCodeAlignment (scaled down).
AllocatePageSize == 4 * kCodeAlignment

\* JumpTableAssembler::kJumpTableSlotSize (scaled down).
kJumpTableSlotSize == 2

\* WasmCode::kRuntimeStubCount (scaled down to a single stub id, id 0).
kRuntimeStubCount == 1

\* Number of pages of address space the OS can hand out.
NumPages == 3

\* The cap given to the WasmCodeManager constructor, in pages.
MaxCommittedPages == 2

\* The largest number of WasmCode objects one module owns in the model.
MaxOwnedCode == 3

\* The deepest nesting of NativeModuleModificationScopes in the model.
MaxDepth == 2

\* The highest address of the stand-alone pool (DisjointAllocationPool).
PoolMax == 7

kNullAddress == 0

\* size_t arithmetic wraps modulo SizeTMod (scaled-down width).
SizeTMod == 64 * AllocatePageSize

Modules == {"m1", "m2", "m3"}
Threads == {"t1", "t2"}
NoThread == "none"

Pages == 1..NumPages
AddrLimit == (NumPages + 1) * AllocatePageSize

Max(a, b) == IF a > b THEN a ELSE b

\* RoundUp(x, m) of src/utils.h, as used at wasm-code-manager.cc:625,644,645.
RoundUp(x, m) == ((x + m - 1) \div m) * m

\* size_t subtraction and addition.
SubSizeT(a, b) == (a - b + SizeTMod) % SizeTMod
AddSizeT(a, b) == (a + b) % SizeTMod

\* ------------------------------------------------------------------------
\* AddressRange
\* ------------------------------------------------------------------------

AddressRange(s, e) == [start |-> s, end |-> e]

EmptyRange == AddressRange(kNullAddress, kNullAddress)

RangeSize(r) == r.end - r.start

is_empty(r) == r.start = r.end

\* ------------------------------------------------------------------------
\* Sequence helpers (std::list / std::vector insert and erase)
\* ------------------------------------------------------------------------

InsertAt(s, i, x) == SubSeq(s, 1, i - 1) \o <<x>> \o SubSeq(s, i, Len(s))

RemoveAt(s, i) == SubSeq(s, 1, i - 1) \o SubSeq(s, i + 1, Len(s))

\* ------------------------------------------------------------------------
\* DisjointAllocationPool
\* ------------------------------------------------------------------------

\* The loop at the head of Merge, if it also skipped a dest range that ends
\* where {range} starts (mutant).
RECURSIVE MergeDestInclusive(_, _, _)
MergeDestInclusive(ranges, range, i) ==
  IF i <= Len(ranges) /\ ranges[i].end <= range.start
    THEN MergeDestInclusive(ranges, range, i + 1)
    ELSE i

\* The loop at the head of Merge: the first dest range that is not strictly
\* before {range}, or Len + 1 for dest_end.
RECURSIVE MergeDest(_, _, _)
MergeDest(ranges, range, i) ==
  IF i <= Len(ranges) /\ ranges[i].end < range.start
    THEN MergeDest(ranges, range, i + 1)
    ELSE i

\* The last case of Merge, without the look at the next range (mutant).
MergeAboveNoFold(ranges, range, i) ==
  [ranges EXCEPT ![i].end = range.end]

\* The last case of Merge: src is adjacent from above; merge and check
\* whether the merged range is now adjacent to the next range.
MergeAbove(ranges, range, i) ==
  LET ext == [ranges EXCEPT ![i].end = range.end]
  IN  IF i < Len(ext) /\ ext[i].end = ext[i + 1].start
        THEN RemoveAt([ext EXCEPT ![i].end = ext[i + 1].end], i + 1)
        ELSE ext

Merge(ranges, range) ==
  LET i == MergeDest(ranges, range, 1)
  IN  IF i > Len(ranges) THEN Append(ranges, range)
      ELSE IF ranges[i].start = range.end
        THEN [ranges EXCEPT ![i].start = range.start]
      ELSE IF ranges[i].start > range.end
        THEN InsertAt(ranges, i, range)
      ELSE MergeAbove(ranges, range, i)

\* The loop of Allocate, if it also skipped a range of just {size} (mutant).
RECURSIVE FirstFitStrict(_, _, _)
FirstFitStrict(ranges, size, i) ==
  IF i > Len(ranges) THEN 0
  ELSE IF size >= RangeSize(ranges[i])
    THEN FirstFitStrict(ranges, size, i + 1)
  ELSE i

\* The loop of Allocate: the first range of at least {size}, or 0.
RECURSIVE FirstFit(_, _, _)
FirstFit(ranges, size, i) ==
  IF i > Len(ranges) THEN 0
  ELSE IF size > RangeSize(ranges[i]) THEN FirstFit(ranges, size, i + 1)
  ELSE i

\* Allocate, if it handed out the range and left it in the pool (mutant).
AllocateKeepsRange(ranges, size) ==
  LET i == FirstFit(ranges, size, 1)
  IN  IF i = 0 THEN [ret |-> EmptyRange, ranges |-> ranges]
      ELSE [ret    |-> AddressRange(ranges[i].start, ranges[i].start + size),
            ranges |-> ranges]

\* Allocate returns the range and leaves the pool changed: both are here.
Allocate(ranges, size) ==
  LET i == FirstFit(ranges, size, 1)
  IN  IF i = 0 THEN [ret |-> EmptyRange, ranges |-> ranges]
      ELSE [ret    |-> AddressRange(ranges[i].start, ranges[i].start + size),
            ranges |-> IF size = RangeSize(ranges[i])
                         THEN RemoveAt(ranges, i)
                         ELSE [ranges EXCEPT ![i].start = ranges[i].start + size]]

\* The addresses a pool covers.
PoolAddrs(ranges) ==
  UNION {ranges[i].start .. (ranges[i].end - 1) : i \in 1..Len(ranges)}


\* ------------------------------------------------------------------------
\* State
\* ------------------------------------------------------------------------

VARIABLES
  \* a stand-alone DisjointAllocationPool and the result of its last Allocate
  ranges_, pool_ret,
  \* the build (V8_OS_WIN) and the flag --wasm-write-protect-code-memory
  V8_OS_WIN, FLAG_wasm_write_protect_code_memory,
  \* WasmCodeManager
  remaining_uncommitted_code_space_, lookup_map_, active_,
  \* the OS: the permission of every page ("none" when not committed)
  page_perm,
  \* the trap handler registry: the handles that are registered
  handler_data,
  \* NativeModule, one entry per module
  status, num_functions_, num_imported_functions_,
  owned_code_space_, free_code_space_, allocated_code_space_,
  owned_code_, code_table_, jump_table_, jump_table_slots,
  runtime_stub_table_, committed_code_space_, modification_scope_depth_,
  is_executable_, use_trap_handler_, can_request_more_memory_,
  allocation_mutex_,
  \* the threads: where each is, and the locals of the call it is in
  pc, ctx,
  \* the process: aborted by a FATAL / CHECK / FatalProcessOutOfMemory
  fatal,
  \* observations of the last step: the number of SetPermissions calls it
  \* made and whether it sent a critical memory pressure notification
  perm_calls, notified,
  \* the call the last step made on the pool or of SetExecutable, with its
  \* arguments, the state it started from and what it returned
  last_call

poolVars == <<ranges_, pool_ret>>
buildVars == <<V8_OS_WIN, FLAG_wasm_write_protect_code_memory>>
managerVars == <<remaining_uncommitted_code_space_, lookup_map_, active_>>
spaceVars == <<owned_code_space_, free_code_space_, allocated_code_space_,
               committed_code_space_>>
codeVars == <<owned_code_, code_table_, jump_table_, jump_table_slots,
              runtime_stub_table_>>
shapeVars == <<status, num_functions_, num_imported_functions_,
               can_request_more_memory_>>
scopeVars == <<modification_scope_depth_, is_executable_>>
threadVars == <<pc, ctx, allocation_mutex_>>

vars == <<ranges_, pool_ret, V8_OS_WIN, FLAG_wasm_write_protect_code_memory,
          remaining_uncommitted_code_space_, lookup_map_, active_, page_perm,
          handler_data, status, num_functions_, num_imported_functions_,
          owned_code_space_, free_code_space_, allocated_code_space_,
          owned_code_, code_table_, jump_table_, jump_table_slots,
          runtime_stub_table_, committed_code_space_,
          modification_scope_depth_, is_executable_, use_trap_handler_,
          can_request_more_memory_, allocation_mutex_, pc, ctx, fatal,
          perm_calls, notified, last_call>>

\* The cap passed to WasmCodeManager::WasmCodeManager.
max_committed == MaxCommittedPages * AllocatePageSize

\* Maybe<uint32_t>: Nothing
NoIndex == -1

\* WasmCode::trap_handler_index_ of a code object that has none
NoTrapHandler == -1

IdleCtx == [op |-> "none", m |-> "none"]

\* The last step called neither the pool nor SetExecutable.
NoCall == [op |-> "none"]

\* ------------------------------------------------------------------------
\* The OS: reservations and page permissions
\* ------------------------------------------------------------------------

\* A VirtualMemory that is not reserved.
NotReserved == AddressRange(kNullAddress, kNullAddress)

IsReserved(vmem) == vmem.start # kNullAddress

\* The addresses of the reservations in a list of VirtualMemory.
SpaceAddrs(spaces) ==
  UNION {spaces[i].start .. (spaces[i].end - 1) : i \in 1..Len(spaces)}

\* Every address that some module has reserved.
ReservedAddrs == UNION {SpaceAddrs(owned_code_space_[m]) : m \in Modules}

\* What a reservation could give if the OS handed out pages that are
\* reserved already (mutant).
ReservableAnywhere(size) ==
  LET bytes == RoundUp(size, AllocatePageSize)
  IN  {AddressRange(p * AllocatePageSize, p * AllocatePageSize + bytes) :
         p \in {q \in Pages : q * AllocatePageSize + bytes <= AddrLimit}}

\* What a reservation of {size} bytes can give: a region of whole pages that
\* is free, wherever the OS likes (the hint is only a hint), or nothing.
Reservable(size) ==
  LET bytes == RoundUp(size, AllocatePageSize)
  IN  {AddressRange(p * AllocatePageSize, p * AllocatePageSize + bytes) :
         p \in {q \in Pages :
                  /\ q * AllocatePageSize + bytes <= AddrLimit
                  /\ (q * AllocatePageSize ..
                        (q * AllocatePageSize + bytes - 1))
                       \cap ReservedAddrs = {}}}

\* The pages that [start, start + size) touches.
PagesOf(start, size) ==
  {p \in Pages : p * AllocatePageSize < start + size
                 /\ (p + 1) * AllocatePageSize > start}

\* SetPermissions(start, size, permission), when the OS grants it.
SetPermissions(perms, start, size, permission) ==
  [p \in Pages |-> IF p \in PagesOf(start, size) THEN permission ELSE perms[p]]

\* ------------------------------------------------------------------------
\* WasmCode
\* ------------------------------------------------------------------------

instruction_start(code) == code.start

\* A relocation entry is [rmode, value]: {value} is what the instruction at
\* the entry's site holds (the stub id of a WASM_STUB_CALL before it is
\* relocated, an address otherwise).  {writes} is what has happened to the
\* instruction range so far, in order: "copy" (the memcpy of AddOwnedCode),
\* "reloc" (a relocation loop) and "flush" (Assembler::FlushICache).
WasmCode(start, size, reloc_info, index, kind, tier) ==
  [start |-> start, end |-> start + size, index |-> index, kind |-> kind,
   tier |-> tier, trap_handler_index |-> NoTrapHandler,
   reloc_info |-> reloc_info, writes |-> <<"copy">>]

\* The flush_icache argument of AddOwnedCode.
kNoFlushICache == FALSE

\* The end of AddOwnedCode, if it flushed whatever it was told (mutant).
AddOwnedCodeFlushAlways(code, flush_icache) ==
  [code EXCEPT !.writes = Append(@, "flush")]

\* The end of AddOwnedCode: the range is flushed when {flush_icache} says so.
AddOwnedCodeFlush(code, flush_icache) ==
  IF flush_icache THEN [code EXCEPT !.writes = Append(@, "flush")] ELSE code

\* RelocInfo::kApplyMask | ModeMask(WASM_STUB_CALL), on an architecture whose
\* kApplyMask holds the internal references.
mode_mask == {"WASM_STUB_CALL", "INTERNAL_REFERENCE"}

\* RelocInfo::apply(delta) on an entry whose site holds {value}.
RelocInfoApply(value, delta) == value + delta

\* One round of the relocation loop without the runtime stub table: a stub
\* call is moved by delta like the rest (mutant).
RelocateEntryNoStubs(rinfo, orig, delta, stubs) ==
  IF rinfo.rmode \notin mode_mask
    THEN rinfo
    ELSE [rinfo EXCEPT !.value = RelocInfoApply(rinfo.value, delta)]

\* One round of the relocation loop of AddCode and of AddAnonymousCode:
\* {rinfo} is the entry of the new code, {orig} the entry the stub call tag
\* is read from, {stubs} the module's runtime_stub_table_.  The iterator
\* skips the entries outside mode_mask.
RelocateEntry(rinfo, orig, delta, stubs) ==
  IF rinfo.rmode \notin mode_mask
    THEN rinfo
    ELSE IF rinfo.rmode = "WASM_STUB_CALL"
           THEN [rinfo EXCEPT !.value = stubs[orig.value]]
           ELSE [rinfo EXCEPT !.value = RelocInfoApply(rinfo.value, delta)]

\* The relocation loop over the code object {code}; {orig} is the
\* relocation info of its source.
Relocate(code, orig, delta, stubs) ==
  [code EXCEPT
     !.reloc_info = [k \in DOMAIN code.reloc_info |->
                       RelocateEntry(code.reloc_info[k], orig[k], delta,
                                     stubs)],
     !.writes = Append(@, "reloc")]

\* Assembler::FlushICache(ret->instructions().start(), size).
FlushICache(code) == [code EXCEPT !.writes = Append(@, "flush")]

\* AddAnonymousCode after AddOwnedCode: the relocation loop against the
\* Code object at {buffer}, whose relocation info was copied, and the flush.
AddAnonymousCodeRelocate(code, buffer, stubs) ==
  FlushICache(Relocate(code, code.reloc_info,
                       instruction_start(code) - buffer, stubs))

\* WasmCode::contains, if the range were closed at its end (mutant).
containsClosed(code, addr) == code.start <= addr /\ addr <= code.end

\* WasmCode::contains
contains(code, addr) == code.start <= addr /\ addr < code.end

\* WasmCode::HasTrapHandlerIndex, if it never saw a handle (mutant).
HasTrapHandlerIndexNever(code) == FALSE

HasTrapHandlerIndex(code) == code.trap_handler_index >= 0

\* std::upper_bound over owned_code_ with WasmCodeUniquePtrComparator: the
\* first position whose code starts after {addr}, or Len + 1.
RECURSIVE UpperBound(_, _, _)
UpperBound(codes, addr, i) ==
  IF i <= Len(codes) /\ ~(addr < instruction_start(codes[i]))
    THEN UpperBound(codes, addr, i + 1)
    ELSE i

\* Where a new code object would go if it were always appended (mutant).
InsertBeforeAppend(codes, start) == Len(codes) + 1

\* AddOwnedCode: the position the new code object is inserted before.
InsertBefore(codes, start) == UpperBound(codes, start, 1)

\* The position in owned_code_ of the code object that starts at {start}.
CodeAt(codes, start) ==
  CHOOSE i \in 1..Len(codes) : codes[i].start = start

\* NativeModule::Lookup; kNullAddress stands for nullptr, a code object is
\* named by its instruction start.
Lookup(codes, addr) ==
  IF Len(codes) = 0 THEN kNullAddress
  ELSE LET iter == UpperBound(codes, addr, 1)
       IN  IF iter = 1 THEN kNullAddress
           ELSE IF contains(codes[iter - 1], addr)
             THEN codes[iter - 1].start
             ELSE kNullAddress


\* ------------------------------------------------------------------------
\* WasmCodeManager: reservations and the lookup map
\* ------------------------------------------------------------------------

\* kRequiresCodeRange of the build that is modelled, and the size reserved
\* for a module when it holds.
kRequiresCodeRange == FALSE

kMaxWasmCodeMemory == NumPages * AllocatePageSize

\* kCriticalThreshold, if it were 0 (mutant).
kCriticalThresholdZero == 0 * AllocatePageSize

\* kCriticalThreshold of NewNativeModule (scaled down).
kCriticalThreshold == 2 * AllocatePageSize

\* WasmCodeManager::TryAllocate: the VirtualMemory it can leave in {ret}.
TryAllocate(size) == Reservable(size) \cup {NotReserved}

\* AssignRanges, if it stored the start of the reservation as its end
\* (mutant).
AssignRangesNoEnd(map, start, end, m) ==
  IF \E e \in map : e.start = start
    THEN map
    ELSE map \cup {[start |-> start, end |-> start, owner |-> m]}

\* AssignRanges, if it kept only the first reservation of a module (mutant).
AssignRangesFirstOnly(map, start, end, m) ==
  IF \E e \in map : e.start = start \/ e.owner = m
    THEN map
    ELSE map \cup {[start |-> start, end |-> end, owner |-> m]}

\* WasmCodeManager::AssignRanges: std::map::insert keeps an existing key.
AssignRanges(map, start, end, m) ==
  IF \E e \in map : e.start = start
    THEN map
    ELSE map \cup {[start |-> start, end |-> end, owner |-> m]}

\* WasmCodeManager::LookupNativeModule; "none" stands for nullptr.
LookupNativeModule(addr) ==
  LET below == {e \in lookup_map_ : e.start <= addr}
  IN  IF below = {} THEN "none"
      ELSE LET e == CHOOSE x \in below : \A y \in below : y.start <= x.start
           IN  IF e.start <= addr /\ addr < e.end THEN e.owner ELSE "none"

\* WasmCodeManager::LookupCode; a code object is named by its module and its
\* instruction start.
LookupCode(addr) ==
  LET candidate == LookupNativeModule(addr)
  IN  IF candidate = "none"
        THEN [module |-> "none", code |-> kNullAddress]
        ELSE LET code == Lookup(owned_code_[candidate], addr)
             IN  IF code = kNullAddress
                   THEN [module |-> "none", code |-> kNullAddress]
                   ELSE [module |-> candidate, code |-> code]

\* The permission WasmCodeManager::Commit gives to the pages, if it forgot
\* the flag (mutant).
CommitPermissionAlwaysRWX(write_protect) == "RWX"

\* The permission WasmCodeManager::Commit gives to the pages.
CommitPermission(write_protect) == IF write_protect THEN "RW" ELSE "RWX"

\* The test of the CAS loop, if it also refused a request of just the
\* budget that is left (mutant).
CommitRefusedAtExact(old_value, size) == old_value <= size

\* WasmCodeManager::Commit, the test of the CAS loop: the request is refused.
CommitRefused(old_value, size) == old_value < size

\* compare_exchange_weak, if it stored without comparing (mutant).
CompareExchangeBlind(current, expected) == TRUE

\* compare_exchange_weak(old_value, ...) can succeed: the counter still holds
\* the value that was loaded.
CompareExchange(current, expected) == current = expected

\* The counter after a refused SetPermissions, if Commit did not give the
\* size back (mutant).
CommitRollbackNone(remaining, size) == remaining

\* The counter after a refused SetPermissions, if Commit gave the size back
\* twice (mutant).
CommitRollbackTwice(remaining, size) == AddSizeT(remaining, 2 * size)

\* WasmCodeManager::Commit, SetPermissions refused:
\* remaining_uncommitted_code_space_.fetch_add(size).
CommitRollback(remaining, size) == AddSizeT(remaining, size)

\* ------------------------------------------------------------------------
\* NativeModule::AllocateForCode
\* ------------------------------------------------------------------------

\* AllocateForCode, if it asked for more memory whether or not the module
\* can_request_more_memory_ (mutant).
AllocateForCodeGrowsAnyway(m, size, os, free0, spaces0, can_grow) ==
  LET asize == RoundUp(size, kCodeAlignment)
      first == Allocate(free0, asize)
  IN  IF ~is_empty(first.ret)
        THEN [null |-> FALSE, mem |-> first.ret, free |-> first.ranges,
              spaces |-> spaces0, lookup |-> lookup_map_]
      ELSE IF ~IsReserved(os)
        THEN [null |-> TRUE, mem |-> first.ret, free |-> first.ranges,
              spaces |-> Append(spaces0, NotReserved), lookup |-> lookup_map_]
      ELSE LET second == Allocate(Merge(first.ranges, os), asize)
           IN  [null |-> is_empty(second.ret), mem |-> second.ret,
                free |-> second.ranges, spaces |-> Append(spaces0, os),
                lookup |-> AssignRanges(lookup_map_, os.start, os.end, m)]

\* AllocateForCode, if it took the size as it is given, without rounding it
\* up to kCodeAlignment (mutant).
AllocateForCodeNoRoundUp(m, size, os, free0, spaces0, can_grow) ==
  LET first == Allocate(free0, size)
  IN  IF ~is_empty(first.ret)
        THEN [null |-> FALSE, mem |-> first.ret, free |-> first.ranges,
              spaces |-> spaces0, lookup |-> lookup_map_]
      ELSE IF ~can_grow
        THEN [null |-> TRUE, mem |-> first.ret, free |-> first.ranges,
              spaces |-> spaces0, lookup |-> lookup_map_]
      ELSE IF ~IsReserved(os)
        THEN [null |-> TRUE, mem |-> first.ret, free |-> first.ranges,
              spaces |-> Append(spaces0, NotReserved), lookup |-> lookup_map_]
      ELSE LET second == Allocate(Merge(first.ranges, os), size)
           IN  [null |-> is_empty(second.ret), mem |-> second.ret,
                free |-> second.ranges, spaces |-> Append(spaces0, os),
                lookup |-> AssignRanges(lookup_map_, os.start, os.end, m)]

\* AllocateForCode up to the commit: the range taken from free_code_space_,
\* after growing the module by the reservation {os} if nothing was free.
\* {null} says that the function returned kNullAddress.
AllocateForCodeFront(m, size, os, free0, spaces0, can_grow) ==
  LET asize == RoundUp(size, kCodeAlignment)
      first == Allocate(free0, asize)
  IN  IF ~is_empty(first.ret)
        THEN [null |-> FALSE, mem |-> first.ret, free |-> first.ranges,
              spaces |-> spaces0, lookup |-> lookup_map_]
      ELSE IF ~can_grow
        THEN [null |-> TRUE, mem |-> first.ret, free |-> first.ranges,
              spaces |-> spaces0, lookup |-> lookup_map_]
      ELSE IF ~IsReserved(os)
        THEN [null |-> TRUE, mem |-> first.ret, free |-> first.ranges,
              spaces |-> Append(spaces0, NotReserved), lookup |-> lookup_map_]
      ELSE LET second == Allocate(Merge(first.ranges, os), asize)
           IN  [null |-> is_empty(second.ret), mem |-> second.ret,
                free |-> second.ranges, spaces |-> Append(spaces0, os),
                lookup |-> AssignRanges(lookup_map_, os.start, os.end, m)]

\* Whether AllocateForCode(size) has to ask the manager for memory.
NeedsGrowth(size, free0, can_grow) ==
  /\ is_empty(Allocate(free0, RoundUp(size, kCodeAlignment)).ret)
  /\ can_grow

\* The V8_OS_WIN loop over owned_code_space_ from its back: the next
\* reservation that holds the end of what is left to commit, or 0.
RECURSIVE NextReservation(_, _, _)
NextReservation(spaces, it, commit_end) ==
  IF it = 0 THEN 0
  ELSE IF commit_end > spaces[it].end \/ spaces[it].start >= commit_end
    THEN NextReservation(spaces, it - 1, commit_end)
  ELSE it

\* The next call of Commit, if on builds other than V8_OS_WIN it committed
\* one page more than [commit_start, commit_end) (mutant).
NextCommitOnePageMore(win, spaces, it, commit_start, commit_end) ==
  IF ~(commit_start < commit_end)
    THEN [more |-> FALSE, start |-> 0, size |-> 0, it |-> 0, left |-> 0]
  ELSE IF ~win
    THEN [more |-> TRUE, start |-> commit_start,
          size |-> commit_end - commit_start + AllocatePageSize,
          it |-> 0, left |-> commit_start]
  ELSE LET j == NextReservation(spaces, it, commit_end)
       IN  IF j = 0
             THEN [more |-> FALSE, start |-> 0, size |-> 0, it |-> 0, left |-> 0]
             ELSE LET start == Max(commit_start, spaces[j].start)
                  IN  [more |-> TRUE, start |-> start,
                       size |-> commit_end - start, it |-> j - 1,
                       left |-> start]

\* The next call of Commit that AllocateForCode makes for what is left of
\* [commit_start, commit_end): none, the whole range, or (V8_OS_WIN) the slice
\* inside one reservation.
NextCommit(win, spaces, it, commit_start, commit_end) ==
  IF ~(commit_start < commit_end)
    THEN [more |-> FALSE, start |-> 0, size |-> 0, it |-> 0, left |-> 0]
  ELSE IF ~win
    THEN [more |-> TRUE, start |-> commit_start,
          size |-> commit_end - commit_start, it |-> 0, left |-> commit_start]
  ELSE LET j == NextReservation(spaces, it, commit_end)
       IN  IF j = 0
             THEN [more |-> FALSE, start |-> 0, size |-> 0, it |-> 0, left |-> 0]
             ELSE LET start == Max(commit_start, spaces[j].start)
                  IN  [more |-> TRUE, start |-> start,
                       size |-> commit_end - start, it |-> j - 1,
                       left |-> start]

\* The locals of a thread that is inside Commit for AddOwnedCode.
CommitCtx(call, m, mem, commit_start, n) ==
  [op |-> call.op, m |-> m, call |-> call, mem |-> mem,
   commit_start |-> commit_start, commit_end |-> n.left, it |-> n.it,
   start |-> n.start, size |-> n.size, old_value |-> 0]

\* The locals of a thread that has returned from AddOwnedCode with the code
\* object that starts at {code}.
PostCtx(call, m, code) == [op |-> call.op, m |-> m, call |-> call, code |-> code]

\* Where a thread goes on after AddOwnedCode.
AfterAddOwnedCode(call) == IF call.op = "AddCode" THEN "reloc" ELSE "post"

\* The end of AddOwnedCode, after AllocateForCode has committed what it had
\* to: the range is merged into allocated_code_space_, the code object is
\* inserted into owned_code_ and the mutex is released.
FinishAddOwnedCode(t, m, call, mem) ==
  /\ allocated_code_space_' =
       [allocated_code_space_ EXCEPT ![m] = Merge(@, mem)]
  /\ owned_code_' =
       [owned_code_ EXCEPT ![m] =
          InsertAt(@, InsertBefore(@, mem.start),
                   AddOwnedCodeFlush(
                     WasmCode(mem.start, call.size, call.reloc_info,
                              call.index, call.kind, call.tier),
                     kNoFlushICache))]
  /\ allocation_mutex_' = [allocation_mutex_ EXCEPT ![m] = NoThread]
  /\ pc' = [pc EXCEPT ![t] = AfterAddOwnedCode(call)]
  /\ ctx' = [ctx EXCEPT ![t] = PostCtx(call, m, mem.start)]
  /\ fatal' = fatal

\* AllocateForCode returned kNullAddress: AddOwnedCode calls
\* FatalProcessOutOfMemory, and the thread {t} never returns.
AddOwnedCodeOutOfMemory(t) ==
  /\ fatal' = TRUE
  /\ pc' = [pc EXCEPT ![t] = "oom"]
  /\ UNCHANGED <<allocated_code_space_, owned_code_, ctx>>

\* AddOwnedCode, from taking the mutex to the first Commit (or to its end
\* when nothing has to be committed).  {free0}, {spaces0} and {can_grow} are
\* the module's free_code_space_, owned_code_space_ and
\* can_request_more_memory_ at the call.
AddOwnedCodeCall(t, m, call, os, free0, spaces0, can_grow) ==
  LET f == AllocateForCodeFront(m, call.size, os, free0, spaces0, can_grow)
      commit_start == RoundUp(f.mem.start, AllocatePageSize)
      commit_end == RoundUp(f.mem.end, AllocatePageSize)
      n == NextCommit(V8_OS_WIN, f.spaces, Len(f.spaces), commit_start,
                      commit_end)
  IN  /\ free_code_space_' = [free_code_space_ EXCEPT ![m] = f.free]
      /\ owned_code_space_' = [owned_code_space_ EXCEPT ![m] = f.spaces]
      /\ lookup_map_' = f.lookup
      /\ perm_calls' = 0
      /\ UNCHANGED <<remaining_uncommitted_code_space_, page_perm,
                     committed_code_space_>>
      /\ IF f.null
           THEN /\ AddOwnedCodeOutOfMemory(t)
                /\ allocation_mutex_' = [allocation_mutex_ EXCEPT ![m] = t]
         ELSE IF n.more
           THEN /\ pc' = [pc EXCEPT ![t] = "commit_load"]
                /\ ctx' = [ctx EXCEPT ![t] =
                             CommitCtx(call, m, f.mem, commit_start, n)]
                /\ allocation_mutex_' = [allocation_mutex_ EXCEPT ![m] = t]
                /\ UNCHANGED <<allocated_code_space_, owned_code_, fatal>>
         ELSE FinishAddOwnedCode(t, m, call, f.mem)

\* What the OS may answer when AddOwnedCode(size) runs: a reservation when
\* the module has to grow, and nothing to decide otherwise.
OsAnswers(size, free0, can_grow) ==
  IF NeedsGrowth(size, free0, can_grow)
    THEN TryAllocate(RoundUp(size, kCodeAlignment))
    ELSE {NotReserved}

\* What a return of WasmCodeManager::Commit leaves behind in last_call:
\* the thread, the size asked for, the value the CAS loop loaded last and
\* the value returned.
CommitReturn(t, size, old_value, ret) ==
  [op |-> "Commit", t |-> t, size |-> size, old_value |-> old_value,
   ret |-> ret]

\* What a kNullAddress from AllocateForCode(size) leaves behind in last_call.
AllocateForCodeNull(m, size) ==
  [op |-> "AllocateForCode", m |-> m, size |-> size, ret |-> kNullAddress]

\* WasmCodeManager::Commit: old_value = remaining_uncommitted_code_space_
\* .load(); a request over the budget returns false, which AllocateForCode
\* hands on as kNullAddress and AddOwnedCode turns into an abort.
CommitLoad(t) ==
  /\ ~fatal
  /\ pc[t] = "commit_load"
  /\ LET old_value == remaining_uncommitted_code_space_
     IN  IF CommitRefused(old_value, ctx[t].size)
           THEN /\ fatal' = TRUE
                /\ pc' = [pc EXCEPT ![t] = "oom"]
                /\ ctx' = ctx
                /\ last_call' = CommitReturn(t, ctx[t].size, old_value, FALSE)
           ELSE /\ pc' = [pc EXCEPT ![t] = "commit_cas"]
                /\ ctx' = [ctx EXCEPT ![t].old_value = old_value]
                /\ fatal' = fatal
                /\ last_call' = NoCall
  /\ perm_calls' = 0
  /\ notified' = FALSE
  /\ UNCHANGED <<poolVars, buildVars, managerVars, page_perm, handler_data,
                 shapeVars, spaceVars, codeVars, scopeVars,
                 use_trap_handler_, allocation_mutex_>>

\* WasmCodeManager::Commit: compare_exchange_weak(old_value, old_value - size)
\* succeeds.
CommitCAS(t) ==
  /\ ~fatal
  /\ pc[t] = "commit_cas"
  /\ CompareExchange(remaining_uncommitted_code_space_, ctx[t].old_value)
  /\ remaining_uncommitted_code_space_' =
       SubSizeT(ctx[t].old_value, ctx[t].size)
  /\ pc' = [pc EXCEPT ![t] = "commit_perm"]
  /\ perm_calls' = 0
  /\ notified' = FALSE
  /\ last_call' = NoCall
  /\ UNCHANGED <<poolVars, buildVars, lookup_map_, active_, page_perm,
                 handler_data, shapeVars, spaceVars, codeVars, scopeVars,
                 use_trap_handler_, allocation_mutex_, ctx, fatal>>

\* WasmCodeManager::Commit: compare_exchange_weak fails, because the counter
\* has changed or spuriously; the loop loads again.
CommitCASFail(t) ==
  /\ ~fatal
  /\ pc[t] = "commit_cas"
  /\ pc' = [pc EXCEPT ![t] = "commit_load"]
  /\ perm_calls' = 0
  /\ notified' = FALSE
  /\ last_call' = NoCall
  /\ UNCHANGED <<poolVars, buildVars, managerVars, page_perm, handler_data,
                 shapeVars, spaceVars, codeVars, scopeVars,
                 use_trap_handler_, allocation_mutex_, ctx, fatal>>

\* WasmCodeManager::Commit: SetPermissions, which the OS grants ({ok}) or
\* not.  Granted, AllocateForCode adds the size to committed_code_space_ and
\* goes on to its next Commit or to the end of AddOwnedCode; refused, the
\* size is added back and the false that Commit returns ends in an abort.
CommitPerm(t, ok) ==
  /\ ~fatal
  /\ pc[t] = "commit_perm"
  /\ perm_calls' = 1
  /\ notified' = FALSE
  /\ last_call' = CommitReturn(t, ctx[t].size, ctx[t].old_value, ok)
  /\ LET c == ctx[t]
         m == c.m
         n == NextCommit(V8_OS_WIN, owned_code_space_[m], c.it,
                         c.commit_start, c.commit_end)
     IN  IF ok
           THEN /\ page_perm' =
                     SetPermissions(page_perm, c.start, c.size,
                       CommitPermission(FLAG_wasm_write_protect_code_memory))
                /\ committed_code_space_' =
                     [committed_code_space_ EXCEPT ![m] = @ + c.size]
                /\ UNCHANGED remaining_uncommitted_code_space_
                /\ IF n.more
                     THEN /\ pc' = [pc EXCEPT ![t] = "commit_load"]
                          /\ ctx' = [ctx EXCEPT ![t] =
                                       CommitCtx(c.call, m, c.mem,
                                                 c.commit_start, n)]
                          /\ UNCHANGED <<allocated_code_space_, owned_code_,
                                         allocation_mutex_, fatal>>
                     ELSE FinishAddOwnedCode(t, m, c.call, c.mem)
           ELSE /\ remaining_uncommitted_code_space_' =
                     CommitRollback(remaining_uncommitted_code_space_, c.size)
                /\ AddOwnedCodeOutOfMemory(t)
                /\ UNCHANGED <<page_perm, committed_code_space_,
                               allocation_mutex_>>
  /\ UNCHANGED <<poolVars, buildVars, lookup_map_, active_, handler_data,
                 shapeVars, owned_code_space_, free_code_space_,
                 code_table_, jump_table_, jump_table_slots,
                 runtime_stub_table_, scopeVars, use_trap_handler_>>


\* ------------------------------------------------------------------------
\* The jump table
\* ------------------------------------------------------------------------

\* The content of a jump table slot: zero-filled, a jump to {target}, or the
\* lazy compile sequence for function {func} that ends in {target}.
ZeroSlot == [kind |-> "zero", target |-> kNullAddress, func |-> NoIndex]

JumpSlot(target) == [kind |-> "jump", target |-> target, func |-> NoIndex]

LazyCompileSlot(func_index, target) ==
  [kind |-> "lazy", target |-> target, func |-> func_index]

\* The memory of an empty jump table of {n} slots (memset 0).
EmptyJumpTable(n) == [i \in 1..n |-> ZeroSlot]

\* The slot PatchJumpTable would write if it took the function index for
\* the slot index (mutant).
SlotIndexNoImports(func_index, num_imported) == func_index

\* NativeModule::PatchJumpTable / GetCallTargetForFunction: slot_idx.
SlotIndex(func_index, num_imported) == func_index - num_imported

\* PatchJumpTable, if it wrote nothing (mutant).
PatchJumpTableNothing(slots, num_imported, func_index, target) == slots

\* NativeModule::PatchJumpTable: the slots after the write.  A slot index
\* past the table writes outside of it, into nothing the model keeps.
PatchJumpTable(slots, num_imported, func_index, target) ==
  LET slot_idx == SlotIndex(func_index, num_imported)
  IN  IF slot_idx + 1 \in DOMAIN slots
        THEN [slots EXCEPT ![slot_idx + 1] = JumpSlot(target)]
        ELSE slots

\* set_code, if it stored every code object in the first entry (mutant).
set_codeFirstEntry(table, num_imported, index, code) ==
  [table EXCEPT ![1] = code]

\* NativeModule::set_code
set_code(table, num_imported, index, code) ==
  [table EXCEPT ![index - num_imported + 1] = code]

\* The code table of a module with {n} declared functions (memset 0).
EmptyCodeTable(n) == [i \in 1..n |-> kNullAddress]

\* The functions a module declares.
Declared(m) == num_imported_functions_[m] .. (num_functions_[m] - 1)

num_wasm_functions(m) == num_functions_[m] - num_imported_functions_[m]

\* NativeModule::code(index)
code(m, index) == code_table_[m][index - num_imported_functions_[m] + 1]

\* NativeModule::GetCallTargetForFunction: the address of the jump table
\* slot of the function.
GetCallTargetForFunction(m, func_index) ==
  jump_table_[m] + SlotIndex(func_index, num_imported_functions_[m])
                     * kJumpTableSlotSize

\* GetFunctionIndexFromJumpTableSlot, if it returned the slot index (mutant).
GetFunctionIndexFromSlotNoImports(m, slot_address) ==
  (slot_address - jump_table_[m]) \div kJumpTableSlotSize

\* NativeModule::GetFunctionIndexFromJumpTableSlot
GetFunctionIndexFromJumpTableSlot(m, slot_address) ==
  LET offset   == slot_address - jump_table_[m]
      slot_idx == offset \div kJumpTableSlotSize
  IN  num_imported_functions_[m] + slot_idx

\* ------------------------------------------------------------------------
\* NativeModule: construction and destruction
\* ------------------------------------------------------------------------

JumpTableCall(op, n, arg) ==
  [op |-> op, size |-> n * kJumpTableSlotSize, index |-> NoIndex,
   kind |-> "kJumpTable", tier |-> "kOther", arg |-> arg,
   reloc_info |-> <<>>, buffer |-> kNullAddress]

\* WasmCodeManager::NewNativeModule and the NativeModule constructor, up to
\* the first Commit for the jump table (or to the end for a module without
\* declared functions).  A reservation that fails is fatal.
NewNativeModule(t, m, memory_estimate, num_functions, num_imported, can_request_more, use_trap_handler, os) ==
  LET vmem_size == IF kRequiresCodeRange THEN kMaxWasmCodeMemory
                   ELSE memory_estimate
      n == num_functions - num_imported
  IN  /\ ~fatal
      /\ pc[t] = "idle"
      /\ status[m] = "none"
      /\ num_imported <= num_functions
      /\ n * kJumpTableSlotSize <= vmem_size
      /\ os \in TryAllocate(vmem_size)
      /\ notified' = (active_ > 1 /\ remaining_uncommitted_code_space_
                                       < kCriticalThreshold)
      /\ last_call' = NoCall
      /\ UNCHANGED <<poolVars, buildVars, handler_data, jump_table_,
                     jump_table_slots, runtime_stub_table_, scopeVars>>
      /\ IF ~IsReserved(os)
           THEN /\ fatal' = TRUE
                /\ perm_calls' = 0
                /\ UNCHANGED <<managerVars, page_perm, shapeVars, spaceVars,
                               owned_code_, code_table_, use_trap_handler_,
                               threadVars>>
           ELSE /\ num_functions_' = [num_functions_ EXCEPT ![m] = num_functions]
                /\ num_imported_functions_' =
                     [num_imported_functions_ EXCEPT ![m] = num_imported]
                /\ can_request_more_memory_' =
                     [can_request_more_memory_ EXCEPT ![m] = can_request_more]
                /\ use_trap_handler_' =
                     [use_trap_handler_ EXCEPT ![m] = use_trap_handler]
                /\ code_table_' = [code_table_ EXCEPT ![m] = EmptyCodeTable(n)]
                /\ IF n > 0
                     THEN /\ status' = [status EXCEPT ![m] = "ctor"]
                          /\ AddOwnedCodeCall(t, m,
                               JumpTableCall("NewNativeModule", n, 0),
                               NotReserved, <<os>>, <<os>>, can_request_more)
                          /\ UNCHANGED active_
                     ELSE /\ status' = [status EXCEPT ![m] = "live"]
                          /\ free_code_space_' =
                               [free_code_space_ EXCEPT ![m] = <<os>>]
                          /\ owned_code_space_' =
                               [owned_code_space_ EXCEPT ![m] = <<os>>]
                          /\ lookup_map_' =
                               AssignRanges(lookup_map_, os.start, os.end, m)
                          /\ active_' = active_ + 1
                          /\ perm_calls' = 0
                          /\ UNCHANGED <<remaining_uncommitted_code_space_,
                                         page_perm, allocated_code_space_,
                                         committed_code_space_, owned_code_,
                                         threadVars, fatal>>

\* The end of the NativeModule constructor and of NewNativeModule: the jump
\* table is set, the reservation is entered into lookup_map_, ++active_.
NativeModuleCreated(t) ==
  /\ ~fatal
  /\ pc[t] = "post"
  /\ ctx[t].op = "NewNativeModule"
  /\ LET m == ctx[t].m
         vmem == owned_code_space_[m][1]
     IN  /\ jump_table_' = [jump_table_ EXCEPT ![m] = ctx[t].code]
         /\ jump_table_slots' =
              [jump_table_slots EXCEPT ![m] =
                 EmptyJumpTable(num_wasm_functions(m))]
         /\ lookup_map_' = AssignRanges(lookup_map_, vmem.start, vmem.end, m)
         /\ active_' = active_ + 1
         /\ status' = [status EXCEPT ![m] = "live"]
  /\ pc' = [pc EXCEPT ![t] = "idle"]
  /\ ctx' = [ctx EXCEPT ![t] = IdleCtx]
  /\ perm_calls' = 0
  /\ notified' = FALSE
  /\ last_call' = NoCall
  /\ UNCHANGED <<poolVars, buildVars, remaining_uncommitted_code_space_,
                 page_perm, handler_data, num_functions_,
                 num_imported_functions_, can_request_more_memory_,
                 spaceVars, owned_code_, code_table_, runtime_stub_table_,
                 scopeVars, use_trap_handler_, allocation_mutex_, fatal>>

\* The handles that the code objects of a module hold.
TrapHandlersOf(codes) ==
  {codes[i].trap_handler_index :
     i \in {j \in 1..Len(codes) : HasTrapHandlerIndex(codes[j])}}

\* The threads that are inside a call on module {m}.
Busy(m) == {t \in Threads : pc[t] # "idle" /\ ctx[t].m = m}

\* ~NativeModule: WasmCodeManager::FreeNativeModule, then the destructors of
\* the members (~WasmCode releases the trap handler data).
FreeNativeModule(m) ==
  /\ ~fatal
  /\ status[m] = "live"
  /\ Busy(m) = {}
  /\ modification_scope_depth_[m] = 0
  /\ active_ >= 1
  /\ active_' = active_ - 1
  /\ lookup_map_' =
       {e \in lookup_map_ :
          \A i \in 1..Len(owned_code_space_[m]) :
             e.start # owned_code_space_[m][i].start}
  /\ page_perm' =
       [p \in Pages |->
          IF \E a \in SpaceAddrs(owned_code_space_[m]) :
               a \div AllocatePageSize = p
            THEN "none" ELSE page_perm[p]]
  /\ remaining_uncommitted_code_space_' =
       AddSizeT(remaining_uncommitted_code_space_, committed_code_space_[m])
  /\ handler_data' = handler_data \ TrapHandlersOf(owned_code_[m])
  /\ status' = [status EXCEPT ![m] = "none"]
  /\ num_functions_' = [num_functions_ EXCEPT ![m] = 0]
  /\ num_imported_functions_' = [num_imported_functions_ EXCEPT ![m] = 0]
  /\ can_request_more_memory_' = [can_request_more_memory_ EXCEPT ![m] = FALSE]
  /\ use_trap_handler_' = [use_trap_handler_ EXCEPT ![m] = FALSE]
  /\ owned_code_space_' = [owned_code_space_ EXCEPT ![m] = <<>>]
  /\ free_code_space_' = [free_code_space_ EXCEPT ![m] = <<>>]
  /\ allocated_code_space_' = [allocated_code_space_ EXCEPT ![m] = <<>>]
  /\ committed_code_space_' = [committed_code_space_ EXCEPT ![m] = 0]
  /\ owned_code_' = [owned_code_ EXCEPT ![m] = <<>>]
  /\ code_table_' = [code_table_ EXCEPT ![m] = <<>>]
  /\ jump_table_' = [jump_table_ EXCEPT ![m] = kNullAddress]
  /\ jump_table_slots' = [jump_table_slots EXCEPT ![m] = <<>>]
  /\ runtime_stub_table_' =
       [runtime_stub_table_ EXCEPT ![m] =
          [i \in 0..(kRuntimeStubCount - 1) |-> kNullAddress]]
  /\ is_executable_' = [is_executable_ EXCEPT ![m] = FALSE]
  /\ perm_calls' = 0
  /\ notified' = FALSE
  /\ last_call' = NoCall
  /\ UNCHANGED <<poolVars, buildVars, modification_scope_depth_, threadVars,
                 fatal>>


\* ------------------------------------------------------------------------
\* NativeModule: adding code
\* ------------------------------------------------------------------------

\* A call of AddOwnedCode on a module that exists: the caller blocks until
\* the mutex is free.
BeginAddOwnedCode(t, m, call, os) ==
  /\ ~fatal
  /\ pc[t] = "idle"
  /\ status[m] = "live"
  /\ allocation_mutex_[m] = NoThread
  /\ Len(owned_code_[m]) < MaxOwnedCode
  /\ os \in OsAnswers(call.size, free_code_space_[m],
                      can_request_more_memory_[m])
  /\ AddOwnedCodeCall(t, m, call, os, free_code_space_[m],
                      owned_code_space_[m], can_request_more_memory_[m])
  /\ notified' = FALSE
  /\ last_call' =
       IF AllocateForCodeFront(m, call.size, os, free_code_space_[m],
                               owned_code_space_[m],
                               can_request_more_memory_[m]).null
         THEN AllocateForCodeNull(m, call.size)
         ELSE NoCall
  /\ UNCHANGED <<poolVars, buildVars, active_, handler_data, shapeVars,
                 jump_table_, jump_table_slots, runtime_stub_table_,
                 scopeVars, use_trap_handler_>>

\* What the relocation loops ask of the relocation info they walk: the tag
\* of a stub call is below kRuntimeStubCount (DCHECK_LT) and the module has
\* that stub (DCHECK_NOT_NULL in runtime_stub).
StubCallsResolve(m, reloc_info) ==
  \A k \in DOMAIN reloc_info :
     reloc_info[k].rmode = "WASM_STUB_CALL" =>
       /\ reloc_info[k].value \in 0..(kRuntimeStubCount - 1)
       /\ runtime_stub_table_[m][reloc_info[k].value] # kNullAddress

\* NativeModule::AddCode up to the return of AddOwnedCode, for a CodeDesc
\* whose instructions are at {buffer} and carry {reloc_info}.
AddCodeDesc(t, m, index, size, tier, reloc_info, buffer, os) ==
  /\ index \in Declared(m)
  /\ StubCallsResolve(m, reloc_info)
  /\ BeginAddOwnedCode(t, m,
       [op |-> "AddCode", size |-> size, index |-> index,
        kind |-> "kFunction", tier |-> tier, arg |-> index,
        reloc_info |-> reloc_info, buffer |-> buffer], os)
  /\ UNCHANGED code_table_

\* NativeModule::AddCode for a CodeDesc without relocation info.
AddCode(t, m, index, size, tier, os) ==
  AddCodeDesc(t, m, index, size, tier, <<>>, kNullAddress, os)

\* AddAnonymousCode for AddCodeCopy, up to the return of AddOwnedCode, for a
\* Code object whose instructions are at {buffer} and carry {reloc_info}.
AddCodeCopyOf(t, m, kind, index, size, reloc_info, buffer, os) ==
  /\ index \in 0..(num_functions_[m] - 1)
  /\ StubCallsResolve(m, reloc_info)
  /\ BeginAddOwnedCode(t, m,
       [op |-> "AddCodeCopy", size |-> size, index |-> NoIndex,
        kind |-> kind, tier |-> "kOther", arg |-> index,
        reloc_info |-> reloc_info, buffer |-> buffer], os)
  /\ UNCHANGED code_table_

\* AddCodeCopy of a Code object without relocation info.
AddCodeCopy(t, m, kind, index, size, os) ==
  AddCodeCopyOf(t, m, kind, index, size, <<>>, kNullAddress, os)

\* AddAnonymousCode for AddInterpreterEntry, up to the return of AddOwnedCode.
AddInterpreterEntry(t, m, index, size, os) ==
  /\ index \in Declared(m)
  /\ BeginAddOwnedCode(t, m,
       [op |-> "AddInterpreterEntry", size |-> size, index |-> NoIndex,
        kind |-> "kInterpreterEntry", tier |-> "kOther", arg |-> index,
        reloc_info |-> <<>>, buffer |-> kNullAddress], os)
  /\ UNCHANGED code_table_

\* AddAnonymousCode for SetLazyBuiltin, up to the return of AddOwnedCode.
\* A module without declared functions returns at once.
SetLazyBuiltin(t, m, size, os) ==
  /\ num_wasm_functions(m) > 0
  /\ BeginAddOwnedCode(t, m,
       [op |-> "SetLazyBuiltin", size |-> size, index |-> NoIndex,
        kind |-> "kLazyStub", tier |-> "kOther", arg |-> 0,
        reloc_info |-> <<>>, buffer |-> kNullAddress], os)
  /\ UNCHANGED code_table_

\* AddAnonymousCode for the runtime stub {id} of SetRuntimeStubs, up to the
\* return of AddOwnedCode.
RuntimeStubCall(id, size) ==
  [op |-> "SetRuntimeStubs", size |-> size, index |-> NoIndex,
   kind |-> "kRuntimeStub", tier |-> "kOther", arg |-> id,
   reloc_info |-> <<>>, buffer |-> kNullAddress]

\* NativeModule::SetRuntimeStubs is called once (DCHECK_NULL).
SetRuntimeStubs(t, m, size, os) ==
  /\ runtime_stub_table_[m][0] = kNullAddress
  /\ \A u \in Threads : ~(pc[u] # "idle" /\ ctx[u].m = m
                          /\ ctx[u].op = "SetRuntimeStubs")
  /\ BeginAddOwnedCode(t, m, RuntimeStubCall(0, size), os)
  /\ UNCHANGED code_table_

\* NativeModule::ReserveCodeTableForTesting up to the return of AddOwnedCode
\* for the new jump table: the code table is replaced by a copy of
\* {max_functions} - num_imported_functions_ entries.
ReserveCodeTableForTesting(t, m, max_functions, os) ==
  LET num_wasm == num_wasm_functions(m)
      max_wasm == max_functions - num_imported_functions_[m]
  IN  /\ num_functions_[m] <= max_functions
      /\ max_wasm > 0
      /\ BeginAddOwnedCode(t, m,
           JumpTableCall("ReserveCodeTableForTesting", max_wasm, max_wasm),
           os)
      /\ code_table_' =
           [code_table_ EXCEPT ![m] =
              [i \in 1..max_wasm |->
                 IF i <= num_wasm THEN code_table_[m][i] ELSE kNullAddress]]

\* What a post step of an install leaves alone.
PostFrame ==
  /\ perm_calls' = 0
  /\ notified' = FALSE
  /\ last_call' = NoCall
  /\ UNCHANGED <<poolVars, buildVars, managerVars, page_perm, shapeVars,
                 spaceVars, scopeVars, use_trap_handler_, allocation_mutex_>>

Return(t) ==
  /\ pc' = [pc EXCEPT ![t] = "idle"]
  /\ ctx' = [ctx EXCEPT ![t] = IdleCtx]

\* trap_handler::RegisterHandlerData: a handle that is not in use.
NewHandle == CHOOSE h \in 0..Cardinality(handler_data) : h \notin handler_data

\* AddCode after AddOwnedCode: the relocation loop, RegisterTrapHandlerData
\* when the module uses trap handlers ({registered}: the registry gave a
\* handle; CHECK_LE(0, index) otherwise), and set_code.
AddCodeRelocate(t, registered) ==
  /\ ~fatal
  /\ pc[t] = "reloc"
  /\ LET m == ctx[t].m
         i == CodeAt(owned_code_[m], ctx[t].code)
         ret == Relocate(owned_code_[m][i], owned_code_[m][i].reloc_info,
                         ctx[t].code - ctx[t].call.buffer,
                         runtime_stub_table_[m])
     IN  IF use_trap_handler_[m] /\ ~registered
           THEN /\ fatal' = TRUE
                /\ owned_code_' = [owned_code_ EXCEPT ![m][i] = ret]
                /\ UNCHANGED <<code_table_, handler_data, pc>>
           ELSE /\ fatal' = fatal
                /\ IF use_trap_handler_[m]
                     THEN /\ owned_code_' =
                               [owned_code_ EXCEPT ![m][i] =
                                  [ret EXCEPT
                                     !.trap_handler_index = NewHandle]]
                          /\ handler_data' = handler_data \cup {NewHandle}
                     ELSE /\ registered
                          /\ owned_code_' =
                               [owned_code_ EXCEPT ![m][i] = ret]
                          /\ UNCHANGED handler_data
                /\ code_table_' =
                     [code_table_ EXCEPT ![m] =
                        set_code(@, num_imported_functions_[m],
                                 ctx[t].call.index, ctx[t].code)]
                /\ pc' = [pc EXCEPT ![t] = "patch"]
  /\ PostFrame
  /\ UNCHANGED <<jump_table_, jump_table_slots, runtime_stub_table_, ctx>>

\* AddCode: PatchJumpTable(index, ret->instruction_start(), kFlushICache).
AddCodePatchJumpTable(t) ==
  /\ ~fatal
  /\ pc[t] = "patch"
  /\ LET m == ctx[t].m
     IN  jump_table_slots' =
           [jump_table_slots EXCEPT ![m] =
              PatchJumpTable(@, num_imported_functions_[m],
                             ctx[t].call.index, ctx[t].code)]
  /\ pc' = [pc EXCEPT ![t] = "flush"]
  /\ PostFrame
  /\ UNCHANGED <<handler_data, owned_code_, code_table_, jump_table_,
                 runtime_stub_table_, ctx, fatal>>

\* AddCode: Assembler::FlushICache over the instructions, and the return.
AddCodeFlushICache(t) ==
  /\ ~fatal
  /\ pc[t] = "flush"
  /\ LET m == ctx[t].m
         i == CodeAt(owned_code_[m], ctx[t].code)
     IN  owned_code_' = [owned_code_ EXCEPT ![m][i] = FlushICache(@)]
  /\ Return(t)
  /\ PostFrame
  /\ UNCHANGED <<handler_data, code_table_, jump_table_, jump_table_slots,
                 runtime_stub_table_, fatal>>

\* AddCodeCopy after AddAnonymousCode: the code object gets its index and,
\* for a declared function, goes into the code table.
AddCodeCopyFinish(t) ==
  /\ ~fatal
  /\ pc[t] = "post"
  /\ ctx[t].op = "AddCodeCopy"
  /\ LET m == ctx[t].m
         i == CodeAt(owned_code_[m], ctx[t].code)
         index == ctx[t].call.arg
     IN  /\ owned_code_' =
              [owned_code_ EXCEPT ![m][i] =
                 [AddAnonymousCodeRelocate(@, ctx[t].call.buffer,
                                           runtime_stub_table_[m])
                    EXCEPT !.index = index]]
         /\ code_table_' =
              IF index >= num_imported_functions_[m]
                THEN [code_table_ EXCEPT ![m] =
                        set_code(@, num_imported_functions_[m], index,
                                 ctx[t].code)]
                ELSE code_table_
  /\ Return(t)
  /\ PostFrame
  /\ UNCHANGED <<handler_data, jump_table_, jump_table_slots,
                 runtime_stub_table_, fatal>>

\* AddInterpreterEntry after AddAnonymousCode: the code object gets its
\* index and the jump table slot is patched; the code table is not touched.
AddInterpreterEntryFinish(t) ==
  /\ ~fatal
  /\ pc[t] = "post"
  /\ ctx[t].op = "AddInterpreterEntry"
  /\ LET m == ctx[t].m
         i == CodeAt(owned_code_[m], ctx[t].code)
         index == ctx[t].call.arg
     IN  /\ owned_code_' =
              [owned_code_ EXCEPT ![m][i] =
                 [AddAnonymousCodeRelocate(@, ctx[t].call.buffer,
                                           runtime_stub_table_[m])
                    EXCEPT !.index = index]]
         /\ jump_table_slots' =
              [jump_table_slots EXCEPT ![m] =
                 PatchJumpTable(@, num_imported_functions_[m], index,
                                ctx[t].code)]
  /\ Return(t)
  /\ PostFrame
  /\ UNCHANGED <<handler_data, code_table_, jump_table_,
                 runtime_stub_table_, fatal>>

\* SetLazyBuiltin after AddAnonymousCode: every slot of the jump table gets
\* the lazy compile sequence of its function.
SetLazyBuiltinFill(t) ==
  /\ ~fatal
  /\ pc[t] = "post"
  /\ ctx[t].op = "SetLazyBuiltin"
  /\ LET m == ctx[t].m
         c == CodeAt(owned_code_[m], ctx[t].code)
     IN  /\ owned_code_' =
              [owned_code_ EXCEPT ![m][c] =
                 AddAnonymousCodeRelocate(@, ctx[t].call.buffer,
                                          runtime_stub_table_[m])]
         /\ jump_table_slots' =
              [jump_table_slots EXCEPT ![m] =
                 [i \in DOMAIN @ |->
                    IF i <= num_wasm_functions(m)
                      THEN LazyCompileSlot(
                             i - 1 + num_imported_functions_[m], ctx[t].code)
                      ELSE @[i]]]
  /\ Return(t)
  /\ PostFrame
  /\ UNCHANGED <<handler_data, code_table_, jump_table_,
                 runtime_stub_table_, fatal>>

\* SetRuntimeStubs after AddAnonymousCode: the stub goes into the table
\* (WASM_RUNTIME_STUB_LIST is cut down to one stub, so this is the last).
SetRuntimeStubsStore(t) ==
  /\ ~fatal
  /\ pc[t] = "post"
  /\ ctx[t].op = "SetRuntimeStubs"
  /\ LET m == ctx[t].m
         i == CodeAt(owned_code_[m], ctx[t].code)
         id == ctx[t].call.arg
     IN  /\ owned_code_' =
              [owned_code_ EXCEPT ![m][i] =
                 AddAnonymousCodeRelocate(@, ctx[t].call.buffer,
                                          runtime_stub_table_[m])]
         /\ runtime_stub_table_' =
              [runtime_stub_table_ EXCEPT ![m][id] = ctx[t].code]
  /\ Return(t)
  /\ PostFrame
  /\ UNCHANGED <<handler_data, code_table_, jump_table_, jump_table_slots,
                 fatal>>

\* ReserveCodeTableForTesting after CreateEmptyJumpTable: jump_table_ is the
\* new, empty table.
ReserveCodeTableDone(t) ==
  /\ ~fatal
  /\ pc[t] = "post"
  /\ ctx[t].op = "ReserveCodeTableForTesting"
  /\ LET m == ctx[t].m
     IN  /\ jump_table_' = [jump_table_ EXCEPT ![m] = ctx[t].code]
         /\ jump_table_slots' =
              [jump_table_slots EXCEPT ![m] = EmptyJumpTable(ctx[t].call.arg)]
  /\ Return(t)
  /\ PostFrame
  /\ UNCHANGED <<handler_data, owned_code_, code_table_,
                 runtime_stub_table_, fatal>>

\* DisableTrapHandler, if it also freed the code of the functions, as its
\* TODO proposes (mutant).
DisableTrapHandlerFreesCode(m) ==
  /\ ~fatal
  /\ status[m] = "live"
  /\ use_trap_handler_[m]
  /\ use_trap_handler_' = [use_trap_handler_ EXCEPT ![m] = FALSE]
  /\ code_table_' =
       [code_table_ EXCEPT ![m] = [i \in DOMAIN @ |-> kNullAddress]]
  /\ owned_code_' =
       [owned_code_ EXCEPT ![m] =
          SelectSeq(@, LAMBDA c : c.kind # "kFunction")]
  /\ perm_calls' = 0
  /\ notified' = FALSE
  /\ last_call' = NoCall
  /\ UNCHANGED <<poolVars, buildVars, managerVars, page_perm, handler_data,
                 shapeVars, spaceVars, jump_table_, jump_table_slots,
                 runtime_stub_table_, scopeVars, threadVars, fatal>>

\* NativeModule::DisableTrapHandler (DCHECK(use_trap_handler_)).
DisableTrapHandler(m) ==
  /\ ~fatal
  /\ status[m] = "live"
  /\ use_trap_handler_[m]
  /\ use_trap_handler_' = [use_trap_handler_ EXCEPT ![m] = FALSE]
  /\ code_table_' =
       [code_table_ EXCEPT ![m] =
          [i \in DOMAIN @ |->
             IF i <= num_wasm_functions(m) THEN kNullAddress ELSE @[i]]]
  /\ perm_calls' = 0
  /\ notified' = FALSE
  /\ last_call' = NoCall
  /\ UNCHANGED <<poolVars, buildVars, managerVars, page_perm, handler_data,
                 shapeVars, spaceVars, owned_code_, jump_table_,
                 jump_table_slots, runtime_stub_table_, scopeVars,
                 threadVars, fatal>>


\* ------------------------------------------------------------------------
\* NativeModule::SetExecutable and NativeModuleModificationScope
\* ------------------------------------------------------------------------

\* The SetPermissions calls of SetExecutable, in order: per reservation on
\* V8_OS_WIN when the module can grow, per range of allocated_code_space_
\* (rounded up to pages) otherwise.
PermissionCalls(m) ==
  IF V8_OS_WIN /\ can_request_more_memory_[m]
    THEN [i \in 1..Len(owned_code_space_[m]) |->
            [start |-> owned_code_space_[m][i].start,
             size  |-> RangeSize(owned_code_space_[m][i])]]
    ELSE [i \in 1..Len(allocated_code_space_[m]) |->
            [start |-> allocated_code_space_[m][i].start,
             size  |-> RoundUp(RangeSize(allocated_code_space_[m][i]),
                               AllocatePageSize)]]

\* The pages after the first {n} of {calls} were granted.
RECURSIVE ApplyPermissions(_, _, _, _)
ApplyPermissions(perms, calls, n, permission) ==
  IF n = 0 THEN perms
  ELSE SetPermissions(ApplyPermissions(perms, calls, n - 1, permission),
                      calls[n].start, calls[n].size, permission)

\* The number of SetPermissions calls SetExecutable(executable) makes when
\* the OS grants them all.
NumPermissionCalls(m, executable) ==
  IF is_executable_[m] = executable THEN 0
  ELSE IF ~FLAG_wasm_write_protect_code_memory THEN 0
  ELSE Len(PermissionCalls(m))

\* What the OS may do to SetExecutable: grant every call (0), or refuse the
\* k-th.
OsRefusals(m, executable) == 0..NumPermissionCalls(m, executable)

\* The permission SetExecutable asks for.
ExecutablePermission(executable) == IF executable THEN "RX" ELSE "RW"

\* SetExecutable, if it stored the state asked for in is_executable_ also
\* when a SetPermissions call was refused (mutant).
SetExecutableFlagsFailure(m, executable, fail_at) ==
  IF is_executable_[m] = executable
    THEN [ret |-> TRUE, calls |-> 0, perms |-> page_perm,
          executable |-> is_executable_[m]]
  ELSE IF ~FLAG_wasm_write_protect_code_memory
    THEN [ret |-> TRUE, calls |-> 0, perms |-> page_perm,
          executable |-> executable]
  ELSE LET calls == PermissionCalls(m)
           permission == ExecutablePermission(executable)
       IN  IF fail_at = 0
             THEN [ret |-> TRUE, calls |-> Len(calls),
                   perms |-> ApplyPermissions(page_perm, calls, Len(calls),
                                              permission),
                   executable |-> executable]
             ELSE [ret |-> FALSE, calls |-> fail_at,
                   perms |-> ApplyPermissions(page_perm, calls, fail_at - 1,
                                              permission),
                   executable |-> executable]

\* SetExecutable without the early return for a module that is in the
\* state asked for (mutant).
SetExecutableNoShortcut(m, executable, fail_at) ==
  IF ~FLAG_wasm_write_protect_code_memory
    THEN [ret |-> TRUE, calls |-> 0, perms |-> page_perm,
          executable |-> executable]
  ELSE LET calls == PermissionCalls(m)
           permission == ExecutablePermission(executable)
       IN  IF fail_at = 0
             THEN [ret |-> TRUE, calls |-> Len(calls),
                   perms |-> ApplyPermissions(page_perm, calls, Len(calls),
                                              permission),
                   executable |-> executable]
             ELSE [ret |-> FALSE, calls |-> fail_at,
                   perms |-> ApplyPermissions(page_perm, calls, fail_at - 1,
                                              permission),
                   executable |-> is_executable_[m]]

\* NativeModule::SetExecutable when the OS refuses the call {fail_at} (0:
\* none): what it returns, the SetPermissions calls it makes, the pages and
\* is_executable_ afterwards.
SetExecutable(m, executable, fail_at) ==
  IF is_executable_[m] = executable
    THEN [ret |-> TRUE, calls |-> 0, perms |-> page_perm,
          executable |-> is_executable_[m]]
  ELSE IF ~FLAG_wasm_write_protect_code_memory
    THEN [ret |-> TRUE, calls |-> 0, perms |-> page_perm,
          executable |-> executable]
  ELSE LET calls == PermissionCalls(m)
           permission == ExecutablePermission(executable)
       IN  IF fail_at = 0
             THEN [ret |-> TRUE, calls |-> Len(calls),
                   perms |-> ApplyPermissions(page_perm, calls, Len(calls),
                                              permission),
                   executable |-> executable]
             ELSE [ret |-> FALSE, calls |-> fail_at,
                   perms |-> ApplyPermissions(page_perm, calls, fail_at - 1,
                                              permission),
                   executable |-> is_executable_[m]]

\* What a call of SetExecutable leaves behind in last_call.
SetExecutableCall(m, executable, r) ==
  [op |-> "SetExecutable", m |-> m, executable |-> executable,
   was_executable |-> is_executable_[m],
   ranges |-> Len(PermissionCalls(m)), calls |-> r.calls, ret |-> r.ret]

\* What a step of SetExecutable or of a modification scope leaves alone.
ScopeFrame ==
  /\ notified' = FALSE
  /\ UNCHANGED <<poolVars, buildVars, managerVars, handler_data, shapeVars,
                 spaceVars, codeVars, use_trap_handler_, threadVars>>

\* A call of NativeModule::SetExecutable from outside a modification scope.
CallSetExecutable(m, executable, fail_at) ==
  /\ ~fatal
  /\ status[m] = "live"
  /\ modification_scope_depth_[m] = 0
  /\ fail_at \in OsRefusals(m, executable)
  /\ LET r == SetExecutable(m, executable, fail_at)
     IN  /\ page_perm' = r.perms
         /\ is_executable_' = [is_executable_ EXCEPT ![m] = r.executable]
         /\ perm_calls' = r.calls
         /\ last_call' = SetExecutableCall(m, executable, r)
  /\ UNCHANGED <<modification_scope_depth_, fatal>>
  /\ ScopeFrame

\* The test of the scope's constructor, if it never held (mutant).
EntersOutermostNever(depth) == FALSE

\* The test of the scope's constructor: (modification_scope_depth_++) == 0.
EntersOutermost(depth) == depth = 0

\* The test of the scope's destructor, if it held on every exit (mutant).
LeavesOutermostAlways(depth) == TRUE

\* The test of the scope's destructor: (modification_scope_depth_--) == 1.
LeavesOutermost(depth) == depth = 1

\* NativeModuleModificationScope::NativeModuleModificationScope
ScopeEnter(m, fail_at) ==
  /\ ~fatal
  /\ status[m] = "live"
  /\ modification_scope_depth_[m] < MaxDepth
  /\ modification_scope_depth_' =
       [modification_scope_depth_ EXCEPT ![m] = @ + 1]
  /\ IF EntersOutermost(modification_scope_depth_[m])
       THEN /\ fail_at \in OsRefusals(m, FALSE)
            /\ LET r == SetExecutable(m, FALSE, fail_at)
               IN  /\ page_perm' = r.perms
                   /\ is_executable_' =
                        [is_executable_ EXCEPT ![m] = r.executable]
                   /\ perm_calls' = r.calls
                   /\ last_call' = SetExecutableCall(m, FALSE, r)
                   /\ fatal' = ~r.ret
       ELSE /\ fail_at = 0
            /\ perm_calls' = 0
            /\ last_call' = NoCall
            /\ UNCHANGED <<page_perm, is_executable_, fatal>>
  /\ ScopeFrame

\* NativeModuleModificationScope::~NativeModuleModificationScope
ScopeExit(m, fail_at) ==
  /\ ~fatal
  /\ status[m] = "live"
  /\ modification_scope_depth_[m] > 0
  /\ modification_scope_depth_' =
       [modification_scope_depth_ EXCEPT ![m] = @ - 1]
  /\ IF LeavesOutermost(modification_scope_depth_[m])
       THEN /\ fail_at \in OsRefusals(m, TRUE)
            /\ LET r == SetExecutable(m, TRUE, fail_at)
               IN  /\ page_perm' = r.perms
                   /\ is_executable_' =
                        [is_executable_ EXCEPT ![m] = r.executable]
                   /\ perm_calls' = r.calls
                   /\ last_call' = SetExecutableCall(m, TRUE, r)
                   /\ fatal' = ~r.ret
       ELSE /\ fail_at = 0
            /\ perm_calls' = 0
            /\ last_call' = NoCall
            /\ UNCHANGED <<page_perm, is_executable_, fatal>>
  /\ ScopeFrame

\* What a step of a scope's constructor or destructor on a thread leaves
\* alone.
ScopeThreadFrame ==
  /\ notified' = FALSE
  /\ UNCHANGED <<poolVars, buildVars, managerVars, handler_data, shapeVars,
                 spaceVars, codeVars, use_trap_handler_, allocation_mutex_>>

\* The scope's constructor on a thread, modification_scope_depth_++ being a
\* plain int read, incremented and written back without a lock: the read.
ScopeCtorLoad(t, m) ==
  /\ ~fatal
  /\ status[m] = "live"
  /\ pc[t] = "idle"
  /\ modification_scope_depth_[m] < MaxDepth
  /\ modification_scope_depth_[m] > -MaxDepth
  /\ pc' = [pc EXCEPT ![t] = "scope_inc"]
  /\ ctx' = [ctx EXCEPT ![t] = [op |-> "NativeModuleModificationScope",
                                m |-> m,
                                depth |-> modification_scope_depth_[m]]]
  /\ perm_calls' = 0
  /\ last_call' = NoCall
  /\ UNCHANGED <<scopeVars, page_perm, fatal>>
  /\ ScopeThreadFrame

\* The constructor: the write of the incremented depth and the test of the
\* value read.
ScopeCtorStore(t) ==
  /\ ~fatal
  /\ pc[t] = "scope_inc"
  /\ modification_scope_depth_' =
       [modification_scope_depth_ EXCEPT ![ctx[t].m] = ctx[t].depth + 1]
  /\ pc' = [pc EXCEPT ![t] = IF EntersOutermost(ctx[t].depth)
                               THEN "scope_set_rw" ELSE "in_scope"]
  /\ perm_calls' = 0
  /\ last_call' = NoCall
  /\ UNCHANGED <<ctx, is_executable_, page_perm, fatal>>
  /\ ScopeThreadFrame

\* The constructor: SetExecutable(false) and CHECK(success).
ScopeCtorSetExecutable(t, fail_at) ==
  /\ ~fatal
  /\ pc[t] = "scope_set_rw"
  /\ fail_at \in OsRefusals(ctx[t].m, FALSE)
  /\ LET m == ctx[t].m
         r == SetExecutable(m, FALSE, fail_at)
     IN  /\ page_perm' = r.perms
         /\ is_executable_' = [is_executable_ EXCEPT ![m] = r.executable]
         /\ perm_calls' = r.calls
         /\ last_call' = SetExecutableCall(m, FALSE, r)
         /\ fatal' = ~r.ret
  /\ pc' = [pc EXCEPT ![t] = "in_scope"]
  /\ UNCHANGED <<ctx, modification_scope_depth_>>
  /\ ScopeThreadFrame

\* The scope's destructor on the thread that holds the scope: the read of
\* modification_scope_depth_--.
ScopeDtorLoad(t) ==
  /\ ~fatal
  /\ pc[t] = "in_scope"
  /\ modification_scope_depth_[ctx[t].m] > -MaxDepth
  /\ pc' = [pc EXCEPT ![t] = "scope_dec"]
  /\ ctx' = [ctx EXCEPT ![t].depth = modification_scope_depth_[ctx[t].m]]
  /\ perm_calls' = 0
  /\ last_call' = NoCall
  /\ UNCHANGED <<scopeVars, page_perm, fatal>>
  /\ ScopeThreadFrame

\* The destructor: the write of the decremented depth and the test of the
\* value read.
ScopeDtorStore(t) ==
  /\ ~fatal
  /\ pc[t] = "scope_dec"
  /\ modification_scope_depth_' =
       [modification_scope_depth_ EXCEPT ![ctx[t].m] = ctx[t].depth - 1]
  /\ IF LeavesOutermost(ctx[t].depth)
       THEN /\ pc' = [pc EXCEPT ![t] = "scope_set_rx"]
            /\ UNCHANGED ctx
       ELSE /\ pc' = [pc EXCEPT ![t] = "idle"]
            /\ ctx' = [ctx EXCEPT ![t] = IdleCtx]
  /\ perm_calls' = 0
  /\ last_call' = NoCall
  /\ UNCHANGED <<is_executable_, page_perm, fatal>>
  /\ ScopeThreadFrame

\* The destructor: SetExecutable(true) and CHECK(success).
ScopeDtorSetExecutable(t, fail_at) ==
  /\ ~fatal
  /\ pc[t] = "scope_set_rx"
  /\ fail_at \in OsRefusals(ctx[t].m, TRUE)
  /\ LET m == ctx[t].m
         r == SetExecutable(m, TRUE, fail_at)
     IN  /\ page_perm' = r.perms
         /\ is_executable_' = [is_executable_ EXCEPT ![m] = r.executable]
         /\ perm_calls' = r.calls
         /\ last_call' = SetExecutableCall(m, TRUE, r)
         /\ fatal' = ~r.ret
  /\ pc' = [pc EXCEPT ![t] = "idle"]
  /\ ctx' = [ctx EXCEPT ![t] = IdleCtx]
  /\ UNCHANGED modification_scope_depth_
  /\ ScopeThreadFrame

\* ------------------------------------------------------------------------
\* The stand-alone pool
\* ------------------------------------------------------------------------

\* The non-empty ranges that do not intersect the pool.
Mergeable(ranges) ==
  {r \in [start : 1..PoolMax, end : 2..(PoolMax + 1)] :
     r.start < r.end /\ (r.start .. (r.end - 1)) \cap PoolAddrs(ranges) = {}}

\* What the steps on the stand-alone pool leave alone.
PoolFrame ==
  /\ UNCHANGED <<buildVars, managerVars, page_perm, handler_data, shapeVars,
                 spaceVars, codeVars, scopeVars, use_trap_handler_,
                 threadVars, fatal, perm_calls, notified>>

\* DisjointAllocationPool::Merge
PoolMerge(range) ==
  /\ range \in Mergeable(ranges_)
  /\ ranges_' = Merge(ranges_, range)
  /\ pool_ret' = EmptyRange
  /\ last_call' = [op |-> "Merge", range |-> range, before |-> ranges_]
  /\ PoolFrame

\* DisjointAllocationPool::Allocate
PoolAllocate(size) ==
  /\ ranges_' = Allocate(ranges_, size).ranges
  /\ pool_ret' = Allocate(ranges_, size).ret
  /\ last_call' = [op |-> "Allocate", size |-> size, before |-> ranges_]
  /\ PoolFrame

\* ------------------------------------------------------------------------
\* Initial states
\* ------------------------------------------------------------------------

\* A WasmCodeManager(max_committed) without modules, on either build and
\* with either setting of the flag.
Init ==
  /\ ranges_ = <<>>
  /\ pool_ret = EmptyRange
  /\ V8_OS_WIN \in BOOLEAN
  /\ FLAG_wasm_write_protect_code_memory \in BOOLEAN
  /\ remaining_uncommitted_code_space_ = max_committed
  /\ lookup_map_ = {}
  /\ active_ = 0
  /\ page_perm = [p \in Pages |-> "none"]
  /\ handler_data = {}
  /\ status = [m \in Modules |-> "none"]
  /\ num_functions_ = [m \in Modules |-> 0]
  /\ num_imported_functions_ = [m \in Modules |-> 0]
  /\ owned_code_space_ = [m \in Modules |-> <<>>]
  /\ free_code_space_ = [m \in Modules |-> <<>>]
  /\ allocated_code_space_ = [m \in Modules |-> <<>>]
  /\ owned_code_ = [m \in Modules |-> <<>>]
  /\ code_table_ = [m \in Modules |-> <<>>]
  /\ jump_table_ = [m \in Modules |-> kNullAddress]
  /\ jump_table_slots = [m \in Modules |-> <<>>]
  /\ runtime_stub_table_ =
       [m \in Modules |-> [i \in 0..(kRuntimeStubCount - 1) |-> kNullAddress]]
  /\ committed_code_space_ = [m \in Modules |-> 0]
  /\ modification_scope_depth_ = [m \in Modules |-> 0]
  /\ is_executable_ = [m \in Modules |-> FALSE]
  /\ use_trap_handler_ = [m \in Modules |-> FALSE]
  /\ can_request_more_memory_ = [m \in Modules |-> FALSE]
  /\ allocation_mutex_ = [m \in Modules |-> NoThread]
  /\ pc = [t \in Threads |-> "idle"]
  /\ ctx = [t \in Threads |-> IdleCtx]
  /\ fatal = FALSE
  /\ perm_calls = 0
  /\ notified = FALSE
  /\ last_call = NoCall


\* ------------------------------------------------------------------------
\* Specifications
\* ------------------------------------------------------------------------

\* The sizes of the code that is added, in bytes.
CodeSizes == {1, 5}

\* A size that is a multiple of kCodeAlignment, after which the next code
\* object starts where this one ends, and a size that is not.
AlignedCodeSizes == {kCodeAlignment, 5}

\* Every VirtualMemory the OS can hand out.
AllVmem ==
  {NotReserved} \cup
  {AddressRange(p * AllocatePageSize, q * AllocatePageSize) :
     p \in Pages, q \in 2..(NumPages + 1)}

\* The steps of WasmCodeManager::Commit inside AllocateForCode.
CommitStep(t) ==
  \/ CommitLoad(t)
  \/ CommitCAS(t)
  \/ CommitCASFail(t)
  \/ \E ok \in BOOLEAN : CommitPerm(t, ok)

\* The stand-alone pool: any Merge of a range that does not intersect the
\* pool, any Allocate.
InitPool ==
  /\ Init
  /\ ~V8_OS_WIN
  /\ ~FLAG_wasm_write_protect_code_memory

NextPool ==
  \/ \E range \in [start : 1..PoolMax, end : 2..(PoolMax + 1)] :
       PoolMerge(range)
  \/ \E size \in 0..PoolMax : PoolAllocate(size)

SpecPool == InitPool /\ [][NextPool]_vars

\* The memory of the manager: two modules of one imported function and no
\* declared one, each with a thread of its own, are created with one page,
\* get import wrappers added and are freed; one of them may grow.
WorkerOf(m) == IF m = "m1" THEN "t1" ELSE "t2"

\* The module that may ask for more memory (can_request_more).
CanGrow(m) == m = "m1"

InitMem == Init /\ FLAG_wasm_write_protect_code_memory

NextMem ==
  \/ \E m \in {"m1", "m2"}, os \in AllVmem :
       NewNativeModule(WorkerOf(m), m, AllocatePageSize, 1, 1, CanGrow(m),
                       FALSE, os)
  \/ \E m \in {"m1", "m2"}, size \in AlignedCodeSizes, os \in AllVmem :
       AddCodeCopy(WorkerOf(m), m, "kWasmToJsWrapper", 0, size, os)
  \/ \E t \in Threads : CommitStep(t)
  \/ \E t \in Threads : AddCodeCopyFinish(t)
  \/ \E m \in {"m1", "m2"} : FreeNativeModule(m)

SpecMem == InitMem /\ [][NextMem]_vars


\* The code of one module: two threads add code of every kind to a module
\* of one imported and two declared functions that uses trap handlers and
\* can grow.
Tiers == {"kLiftoff", "kTurbofan"}

\* The functions of the module, and how many of them are imported.
NumFunctions == 3

NumImported == 1

FunctionIndices == 0..(NumFunctions - 1)

DeclaredIndices == NumImported..(NumFunctions - 1)

InitCode == Init /\ ~V8_OS_WIN /\ FLAG_wasm_write_protect_code_memory

Next ==
  \/ \E os \in AllVmem :
       NewNativeModule("t1", "m1", AllocatePageSize, NumFunctions, NumImported,
                       TRUE, TRUE, os)
  \/ \E t \in Threads : NativeModuleCreated(t)
  \/ \E t \in Threads, index \in DeclaredIndices, size \in CodeSizes,
        tier \in Tiers, os \in AllVmem :
       AddCode(t, "m1", index, size, tier, os)
  \/ \E t \in Threads, registered \in BOOLEAN : AddCodeRelocate(t, registered)
  \/ \E t \in Threads : AddCodePatchJumpTable(t)
  \/ \E t \in Threads : AddCodeFlushICache(t)
  \/ \E kind \in {"kFunction", "kWasmToJsWrapper"},
        index \in FunctionIndices, os \in AllVmem :
       AddCodeCopy("t1", "m1", kind, index, 1, os)
  \/ \E t \in Threads : AddCodeCopyFinish(t)
  \/ \E index \in DeclaredIndices, os \in AllVmem :
       AddInterpreterEntry("t1", "m1", index, 1, os)
  \/ \E t \in Threads : AddInterpreterEntryFinish(t)
  \/ \E os \in AllVmem : SetLazyBuiltin("t1", "m1", 1, os)
  \/ \E t \in Threads : SetLazyBuiltinFill(t)
  \/ \E os \in AllVmem : SetRuntimeStubs("t1", "m1", 1, os)
  \/ \E t \in Threads : SetRuntimeStubsStore(t)
  \/ \E os \in AllVmem : ReserveCodeTableForTesting("t1", "m1", NumFunctions, os)
  \/ \E t \in Threads : ReserveCodeTableDone(t)
  \/ DisableTrapHandler("m1")
  \/ \E t \in Threads : CommitStep(t)
  \/ FreeNativeModule("m1")

Spec == InitCode /\ [][Next]_vars

\* The modification scopes of one module, on either build and with either
\* flag: one thread creates the module, adds import wrappers to it, calls
\* SetExecutable, opens and closes scopes, and frees the module.
NextScope ==
  \/ \E grow \in BOOLEAN, os \in AllVmem :
       NewNativeModule("t1", "m1", AllocatePageSize, 1, 1, grow, FALSE, os)
  \/ \E size \in CodeSizes, os \in AllVmem :
       AddCodeCopy("t1", "m1", "kWasmToJsWrapper", 0, size, os)
  \/ CommitStep("t1")
  \/ AddCodeCopyFinish("t1")
  \/ \E executable \in BOOLEAN, fail_at \in 0..MaxOwnedCode :
       CallSetExecutable("m1", executable, fail_at)
  \/ \E fail_at \in 0..MaxOwnedCode : ScopeEnter("m1", fail_at)
  \/ \E fail_at \in 0..MaxOwnedCode : ScopeExit("m1", fail_at)
  \/ FreeNativeModule("m1")

SpecScope == Init /\ [][NextScope]_vars

\* The modification scopes of one module opened and closed by two threads,
\* one scope per thread at a time: the module is created, gets an import
\* wrapper, and is freed when no thread is at work on it.
NextScopeThreads ==
  \/ \E os \in AllVmem :
       NewNativeModule("t1", "m1", AllocatePageSize, 1, 1, FALSE, FALSE, os)
  \/ AddCodeCopy("t1", "m1", "kWasmToJsWrapper", 0, 1, NotReserved)
  \/ CommitStep("t1")
  \/ AddCodeCopyFinish("t1")
  \/ \E t \in Threads : ScopeCtorLoad(t, "m1")
  \/ \E t \in Threads : ScopeCtorStore(t)
  \/ \E t \in Threads, fail_at \in 0..MaxOwnedCode :
       ScopeCtorSetExecutable(t, fail_at)
  \/ \E t \in Threads : ScopeDtorLoad(t)
  \/ \E t \in Threads : ScopeDtorStore(t)
  \/ \E t \in Threads, fail_at \in 0..MaxOwnedCode :
       ScopeDtorSetExecutable(t, fail_at)
  \/ FreeNativeModule("m1")

SpecScopeThreads == InitCode /\ [][NextScopeThreads]_vars

\* The modules of the manager come and go: one thread creates up to three
\* modules of one page each, none of which can grow, adds an import wrapper
\* to them, which commits their page, and frees them.
NextPressure ==
  \/ \E m \in Modules, os \in AllVmem :
       NewNativeModule("t1", m, AllocatePageSize, 1, 1, FALSE, FALSE, os)
  \/ \E m \in Modules :
       AddCodeCopy("t1", m, "kWasmToJsWrapper", 0, 1, NotReserved)
  \/ CommitStep("t1")
  \/ AddCodeCopyFinish("t1")
  \/ \E m \in Modules : FreeNativeModule(m)

SpecPressure == InitCode /\ [][NextPressure]_vars

\* One module on which two threads do nothing but AddCode, of any declared
\* function and either tier: nothing else writes code_table_ or the jump
\* table once the module is created.
NextAddCode ==
  \/ \E os \in AllVmem :
       NewNativeModule("t1", "m1", AllocatePageSize, NumFunctions, NumImported,
                       TRUE, FALSE, os)
  \/ \E t \in Threads : NativeModuleCreated(t)
  \/ \E t \in Threads, index \in DeclaredIndices, tier \in Tiers,
        os \in AllVmem :
       AddCode(t, "m1", index, 1, tier, os)
  \/ \E t \in Threads : AddCodeRelocate(t, TRUE)
  \/ \E t \in Threads : AddCodePatchJumpTable(t)
  \/ \E t \in Threads : AddCodeFlushICache(t)
  \/ \E t \in Threads : CommitStep(t)

SpecAddCode == InitCode /\ [][NextAddCode]_vars

\* Installs of code that carries relocation info, by one thread in a module
\* that may or may not have its runtime stubs yet: a stub call with tag 0, an
\* internal reference and an entry outside the mode mask, from a source
\* below and from a source above the code space.
RelocInfos ==
  LET stub == [rmode |-> "WASM_STUB_CALL", value |-> 0]
      ref == [rmode |-> "INTERNAL_REFERENCE", value |-> 3]
      comment == [rmode |-> "COMMENT", value |-> 7]
  IN  {<<>>, <<stub>>, <<ref>>, <<ref, stub>>, <<comment, stub, ref>>}

NextInstall ==
  \/ \E os \in AllVmem :
       NewNativeModule("t1", "m1", AllocatePageSize, NumFunctions, NumImported,
                       TRUE, FALSE, os)
  \/ NativeModuleCreated("t1")
  \/ \E os \in AllVmem : SetRuntimeStubs("t1", "m1", 1, os)
  \/ SetRuntimeStubsStore("t1")
  \/ \E index \in DeclaredIndices, tier \in Tiers,
        reloc_info \in RelocInfos, buffer \in {2, 3 * AllocatePageSize},
        os \in AllVmem :
       AddCodeDesc("t1", "m1", index, 1, tier, reloc_info, buffer, os)
  \/ AddCodeRelocate("t1", TRUE)
  \/ AddCodePatchJumpTable("t1")
  \/ AddCodeFlushICache("t1")
  \/ \E reloc_info \in RelocInfos, buffer \in {2, 3 * AllocatePageSize},
        os \in AllVmem :
       AddCodeCopyOf("t1", "m1", "kWasmToJsWrapper", 0, 1, reloc_info,
                     buffer, os)
  \/ AddCodeCopyFinish("t1")
  \/ CommitStep("t1")

SpecInstall == InitCode /\ [][NextInstall]_vars

\* ------------------------------------------------------------------------
\* Properties
\* ------------------------------------------------------------------------

\* A thread is inside WasmCodeManager::Commit.
InCommit(t) == pc[t] \in {"commit_load", "commit_cas", "commit_perm"}

\* The committed_code_space_ of the modules {ms}, summed.
RECURSIVE SumCommitted(_)
SumCommitted(ms) ==
  IF ms = {} THEN 0
  ELSE LET m == CHOOSE x \in ms : TRUE
       IN  committed_code_space_[m] + SumCommitted(ms \ {m})

\* What the threads {ts} have taken from the counter inside Commit and not
\* yet added to a module's committed_code_space_.
RECURSIVE SumInFlight(_)
SumInFlight(ts) ==
  IF ts = {} THEN 0
  ELSE LET t == CHOOSE x \in ts : TRUE
       IN  (IF pc[t] = "commit_perm" THEN ctx[t].size ELSE 0)
             + SumInFlight(ts \ {t})

\* C1 (P1), as the specification states it: for every module, whenever no
\* AllocateForCode call is running on it (calls that returned kNullAddress
\* included), free_code_space_ and allocated_code_space_ are disjoint and
\* cover exactly the module's reservations.  The code does not keep this: a
\* call whose Commit fails has taken its range out of free_code_space_ and
\* returns kNullAddress without putting it anywhere.
C1_PoolsPartitionReservations ==
  \A m \in Modules :
    ~(\E u \in Threads : InCommit(u) /\ ctx[u].m = m) =>
      /\ PoolAddrs(free_code_space_[m])
           \cap PoolAddrs(allocated_code_space_[m]) = {}
      /\ PoolAddrs(free_code_space_[m])
           \cup PoolAddrs(allocated_code_space_[m])
           = SpaceAddrs(owned_code_space_[m])

\* C1: an AllocateForCode call has returned kNullAddress after a Commit that
\* failed.
C1_NullAfterCommit ==
  \E t \in Threads :
     /\ pc[t] = "oom"
     /\ ctx[t].op # "none"
     /\ \/ remaining_uncommitted_code_space_ >= ctx[t].size
        \/ remaining_uncommitted_code_space_ < ctx[t].size

\* C2 (P4): whenever no thread is inside Commit, the committed_code_space_ of
\* all modules plus remaining_uncommitted_code_space_ is the cap the manager
\* was constructed with; Commit calls that fail and modules that are freed
\* are among the steps.
C2_CommittedPlusRemainingIsCap ==
  (\A t \in Threads : ~InCommit(t)) =>
    SumCommitted(Modules) + remaining_uncommitted_code_space_ = max_committed

\* C2: the OS has refused a Commit, the size has been given back, and
\* committed memory is left in some module.
C2_AfterFailedCommit ==
  /\ \A t \in Threads : ~InCommit(t)
  /\ \E t \in Threads :
       /\ pc[t] = "oom"
       /\ ctx[t].op # "none"
       /\ remaining_uncommitted_code_space_ >= ctx[t].size
  /\ SumCommitted(Modules) > 0
  /\ remaining_uncommitted_code_space_ < max_committed

\* C3: under every interleaving of Commit calls, the counter never wraps
\* below zero, and what the modules have committed plus what threads inside
\* Commit have taken from the counter never exceeds the cap.
C3_CommitNeverExceedsCap ==
  /\ remaining_uncommitted_code_space_ <= max_committed
  /\ SumCommitted(Modules) + SumInFlight(Threads) <= max_committed

\* C3: two threads were inside Commit when the budget sufficed for one of
\* them: one holds the budget, the other has been refused.
C3_OneOfTwoRefused ==
  \E t \in Threads, u \in Threads :
    /\ pc[t] = "commit_perm"
    /\ pc[u] = "oom"
    /\ ctx[u].op # "none"
    /\ remaining_uncommitted_code_space_ < ctx[u].size
    /\ remaining_uncommitted_code_space_ + ctx[t].size >= ctx[u].size

\* C4 (P2): in every module, owned_code_ is strictly sorted by
\* instruction_start and the instruction ranges of its entries are pairwise
\* disjoint, also while several threads add code.
C4_OwnedCodeSortedDisjoint ==
  \A m \in Modules :
    \A i \in 1..(Len(owned_code_[m]) - 1) :
      /\ instruction_start(owned_code_[m][i])
           < instruction_start(owned_code_[m][i + 1])
      /\ owned_code_[m][i].end <= instruction_start(owned_code_[m][i + 1])

\* C4: two threads are past AddOwnedCode at once, in a module that holds
\* three code objects in two reservations.
C4_ConcurrentInstalls ==
  /\ Len(owned_code_["m1"]) = 3
  /\ Len(owned_code_space_["m1"]) = 2
  /\ \A t \in Threads : pc[t] \in {"post", "reloc", "patch", "flush"}

\* C5 (P5), as the specification states it: when a call that adds a code
\* object c for a declared function f returns, LookupCode(c.instruction_start)
\* is c and the jump table slot f - num_imported_functions_ holds a jump to
\* c.instruction_start.  AddCodeCopy does not patch the jump table.
C5_InstallIsReachable ==
  [][\A t \in Threads, m \in Modules, f \in FunctionIndices,
        c \in 1..AddrLimit :
       (/\ pc[t] \in {"post", "flush"}
        /\ pc'[t] = "idle"
        /\ ctx[t].op \in {"AddCode", "AddCodeCopy", "AddInterpreterEntry"}
        /\ ctx[t].m = m
        /\ ctx[t].call.arg = f
        /\ ctx[t].code = c
        /\ f \in Declared(m)) =>
         /\ LookupCode(c)' = [module |-> m, code |-> c]
         /\ jump_table_slots'[m][f - num_imported_functions_[m] + 1]
              = JumpSlot(c)]_vars

\* C5: AddCodeCopy has put a code object into the code table of a declared
\* function, and the slot of the function does not jump to it.
C5_CopyNotInJumpTable ==
  \E f \in Declared("m1") :
    /\ status["m1"] = "live"
    /\ Busy("m1") = {}
    /\ code("m1", f) # kNullAddress
    /\ owned_code_["m1"][CodeAt(owned_code_["m1"], code("m1", f))].tier
         = "kOther"
    /\ jump_table_slots["m1"][f - num_imported_functions_["m1"] + 1]
         # JumpSlot(code("m1", f))

\* The jump table slot of the declared function {f} of module {m}.
SlotOf(m, f) == jump_table_slots[m][f - num_imported_functions_[m] + 1]

\* The code object of module {m} that starts at {addr} is of one of {kinds}
\* and, for a function index {f} other than NoIndex, has that index.
OwnsCode(m, addr, kinds, f) ==
  \E i \in 1..Len(owned_code_[m]) :
    /\ instruction_start(owned_code_[m][i]) = addr
    /\ owned_code_[m][i].kind \in kinds
    /\ f # NoIndex => owned_code_[m][i].index = f

\* C6, as the specification states it: in every state in which no call is
\* running on the module, the slot of every declared function f holds a jump
\* to code_table_[f] when that is not null, and a jump to the lazy compile
\* stub when it is null.
C6_SlotFollowsCodeTable ==
  \A m \in Modules :
    (status[m] = "live" /\ Busy(m) = {}) =>
      \A f \in Declared(m) :
        IF code(m, f) # kNullAddress
          THEN SlotOf(m, f) = JumpSlot(code(m, f))
          ELSE SlotOf(m, f).kind = "lazy"

\* C6, as the code keeps it: in every state, the slot of every declared
\* function f is still zero-filled, or holds the lazy compile sequence of f
\* that ends in a kLazyStub code object of the module, or holds a jump to the
\* instruction start of a code object of the module that was added for f as
\* a function or as an interpreter entry.
C6_SlotTargetsCodeOfFunction ==
  \A m \in Modules :
    status[m] = "live" =>
      \A f \in Declared(m) :
        \/ SlotOf(m, f) = ZeroSlot
        \/ /\ SlotOf(m, f).kind = "lazy"
           /\ SlotOf(m, f).func = f
           /\ OwnsCode(m, SlotOf(m, f).target, {"kLazyStub"}, NoIndex)
        \/ /\ SlotOf(m, f).kind = "jump"
           /\ OwnsCode(m, SlotOf(m, f).target,
                       {"kFunction", "kInterpreterEntry"}, f)

\* C6: one declared function has been compiled and its slot jumps to its
\* code, while the slot of another still holds the lazy compile sequence.
C6_CompiledAndLazy ==
  \E f \in Declared("m1"), g \in Declared("m1") :
    /\ status["m1"] = "live"
    /\ code("m1", f) # kNullAddress
    /\ SlotOf("m1", f) = JumpSlot(code("m1", f))
    /\ SlotOf("m1", g).kind = "lazy"

\* C7: a step never leaves a module executable while a modification scope is
\* open on it, and the exit that closes the outermost scope leaves the
\* module executable, whatever is_executable_ was before the scope.
C7_WritableInsideExecutableAfter ==
  [][\A m \in Modules :
       /\ (modification_scope_depth_'[m] > 0 /\ ~fatal') => ~is_executable_'[m]
       /\ (/\ modification_scope_depth_[m] = 1
           /\ modification_scope_depth_'[m] = 0
           /\ ~fatal') => is_executable_'[m]]_vars

\* C7: the outermost scope has been entered on an executable module, whose
\* pages SetExecutable(false) has made writable.
C7_EnteredFromExecutable ==
  /\ modification_scope_depth_["m1"] = 1
  /\ ~is_executable_["m1"]
  /\ FLAG_wasm_write_protect_code_memory
  /\ perm_calls > 0
  /\ committed_code_space_["m1"] = AllocatePageSize
  /\ \A t \in Threads : pc[t] = "idle"
  /\ \E p \in Pages : page_perm[p] = "RW"

\* C8: entering or leaving a nested scope (the depth is at least 1 before and
\* after) calls SetPermissions not once and leaves is_executable_ as it was.
C8_NestedScopesAreFree ==
  [][\A m \in Modules :
       (/\ modification_scope_depth_[m] >= 1
        /\ modification_scope_depth_'[m] >= 1
        /\ modification_scope_depth_'[m] # modification_scope_depth_[m]) =>
         /\ perm_calls' = 0
         /\ page_perm' = page_perm
         /\ is_executable_'[m] = is_executable_[m]]_vars

\* C8: a nested scope is open on a module with committed pages, with write
\* protection.
C8_NestedScopeOpen ==
  /\ modification_scope_depth_["m1"] >= 2
  /\ FLAG_wasm_write_protect_code_memory
  /\ committed_code_space_["m1"] > 0
  /\ perm_calls = 0
  /\ \A t \in Threads : pc[t] = "idle"

\* C9: with FLAG_wasm_write_protect_code_memory, no page is ever writable and
\* executable at once: Commit and SetExecutable leave RW or RX.
C9_WriteXorExecute ==
  FLAG_wasm_write_protect_code_memory =>
    \A p \in Pages : page_perm[p] \in {"none", "RW", "RX"}

\* C9: with write protection, a module has a page that SetExecutable(true)
\* made RX and a page that a later Commit made RW.
C9_ExecutableAndWritablePages ==
  /\ FLAG_wasm_write_protect_code_memory
  /\ \E p \in Pages : page_perm[p] = "RX"
  /\ \E p \in Pages : page_perm[p] = "RW"

\* C10: after any Merge of non-empty ranges that do not overlap the pool and
\* any Allocate of a size above 0, the ranges of the pool are in strictly
\* increasing order with a gap between neighbours, and none is empty.
C10_PoolSortedCoalescedNonEmpty ==
  /\ \A i \in 1..Len(ranges_) : ranges_[i].start < ranges_[i].end
  /\ \A i \in 1..(Len(ranges_) - 1) : ranges_[i].end < ranges_[i + 1].start

\* C10: an Allocate has left a pool of three ranges.
C10_ThreeRangesAfterAllocate ==
  /\ Len(ranges_) = 3
  /\ ~is_empty(pool_ret)

\* C11: a Merge of a non-empty range r into an empty pool leaves the pool
\* <<r>>, and an Allocate of r's size from the pool <<r>> returns exactly r
\* and leaves the pool empty.
C11_MergeThenAllocateRoundTrip ==
  /\ (last_call.op = "Merge" /\ last_call.before = <<>>)
       => ranges_ = <<last_call.range>>
  /\ (/\ last_call.op = "Allocate"
      /\ Len(last_call.before) = 1
      /\ last_call.size = RangeSize(last_call.before[1]))
       => (pool_ret = last_call.before[1] /\ ranges_ = <<>>)

\* C11: an Allocate of the size of the only range of the pool, a range that
\* does not start at the null address, has emptied the pool.
C11_AllocatedWholePool ==
  /\ last_call.op = "Allocate"
  /\ Len(last_call.before) = 1
  /\ last_call.size = RangeSize(last_call.before[1])
  /\ last_call.size > 1
  /\ ranges_ = <<>>

\* C12: a Merge of a range that fills exactly the gap between two consecutive
\* stored ranges [a,b) and [c,d) replaces both by [a,d) and leaves every
\* other stored range as it was; a Merge of a range that touches a stored
\* range on one side only extends that range and leaves the others.
C12_MergeCoalescesNeighbours ==
  last_call.op = "Merge" =>
    LET before == last_call.before
        range  == last_call.range
        below  == {i \in 1..Len(before) : before[i].end = range.start}
        above  == {i \in 1..Len(before) : before[i].start = range.end}
    IN  /\ \A i \in below : \A j \in above :
             /\ j = i + 1
             /\ ranges_ = SubSeq(before, 1, i - 1)
                            \o <<AddressRange(before[i].start, before[j].end)>>
                            \o SubSeq(before, j + 1, Len(before))
        /\ \A i \in below :
             above = {} => ranges_ = [before EXCEPT ![i].end = range.end]
        /\ \A j \in above :
             below = {} => ranges_ = [before EXCEPT ![j].start = range.start]

\* C12: a Merge has filled the gap between the second and the third of four
\* stored ranges.
C12_GapFilledBetweenOthers ==
  /\ last_call.op = "Merge"
  /\ Len(last_call.before) = 4
  /\ last_call.before[2].end = last_call.range.start
  /\ last_call.before[3].start = last_call.range.end
  /\ Len(ranges_) = 3

\* The stored ranges of {ranges} that hold at least {size} bytes.
Fitting(ranges, size) ==
  {i \in 1..Len(ranges) : RangeSize(ranges[i]) >= size}

\* C13: an Allocate of a size above 0 returns the first {size} bytes of the
\* lowest stored range of at least that size, erases that range when the
\* sizes are equal and advances its start otherwise, and leaves the other
\* ranges; when no stored range fits it returns the empty range and leaves
\* the pool.
C13_AllocateIsFirstFit ==
  (last_call.op = "Allocate" /\ last_call.size > 0) =>
    LET before == last_call.before
        size   == last_call.size
        fits   == Fitting(before, size)
    IN  IF fits = {}
          THEN pool_ret = EmptyRange /\ ranges_ = before
          ELSE LET i == CHOOSE k \in fits : \A l \in fits : k <= l
               IN  /\ pool_ret = AddressRange(before[i].start,
                                              before[i].start + size)
                   /\ ranges_ =
                        IF RangeSize(before[i]) = size
                          THEN SubSeq(before, 1, i - 1)
                                 \o SubSeq(before, i + 1, Len(before))
                          ELSE [before EXCEPT ![i].start = @ + size]

\* C13: an Allocate has passed a first range that was too small and has
\* taken the head of the second range, with a third range behind it.
C13_SkippedTooSmallRange ==
  /\ last_call.op = "Allocate"
  /\ Len(last_call.before) = 3
  /\ RangeSize(last_call.before[1]) < last_call.size
  /\ RangeSize(last_call.before[2]) > last_call.size
  /\ pool_ret.start = last_call.before[2].start
  /\ Len(ranges_) = 3

\* C14: an Allocate of size 0 returns the sentinel (0,0) and leaves the
\* pool as it was, whether the pool is empty or not.
C14_AllocateZeroReturnsSentinel ==
  (last_call.op = "Allocate" /\ last_call.size = 0) =>
    (pool_ret = EmptyRange /\ ranges_ = last_call.before)

\* C14: an Allocate of size 0 from a pool that is not empty has left the
\* pool and has returned a range of no bytes at the start of the first
\* stored range.
C14_ZeroSizeFromNonEmptyPool ==
  /\ last_call.op = "Allocate"
  /\ last_call.size = 0
  /\ last_call.before # <<>>
  /\ ranges_ = last_call.before
  /\ is_empty(pool_ret)
  /\ pool_ret.start = ranges_[1].start

\* The jump table code objects of module {m}, and the one jump_table_
\* points to.
JumpTables(m) ==
  {i \in 1..Len(owned_code_[m]) : owned_code_[m][i].kind = "kJumpTable"}

CurrentJumpTable(m) ==
  owned_code_[m][CHOOSE i \in JumpTables(m) :
                   instruction_start(owned_code_[m][i]) = jump_table_[m]]

\* C15: for every declared function f of a live module with a jump table,
\* GetFunctionIndexFromJumpTableSlot(GetCallTargetForFunction(f)) is f, and
\* GetCallTargetForFunction(f) is the start of the slot
\* f - num_imported_functions, which lies inside the jump table.
C15_CallTargetRoundTrip ==
  \A m \in Modules :
    (status[m] = "live" /\ jump_table_[m] # kNullAddress) =>
      \A f \in Declared(m) :
        LET target == GetCallTargetForFunction(m, f)
            table  == CurrentJumpTable(m)
        IN  /\ GetFunctionIndexFromJumpTableSlot(m, target) = f
            /\ target = instruction_start(table)
                          + (f - num_imported_functions_[m])
                              * kJumpTableSlotSize
            /\ contains(table, target)
            /\ target + kJumpTableSlotSize <= table.end

\* C15: a live module with two declared functions whose jump table was
\* replaced: the call target of the last function is the second slot of the
\* table in use.
C15_LastSlotOfReplacedTable ==
  /\ status["m1"] = "live"
  /\ Cardinality(JumpTables("m1")) = 2
  /\ GetCallTargetForFunction("m1", NumFunctions - 1)
       = jump_table_["m1"] + kJumpTableSlotSize

\* C16: for every declared function f of a module that is live before and
\* after a step, GetCallTargetForFunction(f) returns the same address after
\* the step as before it.
C16_CallTargetIsStable ==
  [][\A m \in Modules :
       (status[m] = "live" /\ status'[m] = "live") =>
         \A f \in Declared(m) :
           GetCallTargetForFunction(m, f)' = GetCallTargetForFunction(m, f)]_vars

\* C16: ReserveCodeTableForTesting has replaced the jump table of a live
\* module that holds code for a declared function: the call target of the
\* function is now a zero-filled slot of the new table.
C16_JumpTableReplaced ==
  /\ status["m1"] = "live"
  /\ Cardinality(JumpTables("m1")) = 2
  /\ \E f \in Declared("m1") :
       /\ code("m1", f) # kNullAddress
       /\ SlotOf("m1", f) = ZeroSlot
       /\ contains(CurrentJumpTable("m1"), GetCallTargetForFunction("m1", f))

\* C17 as stated: two calls SetExecutable(x) in a row make exactly one
\* SetPermissions call in total; the second makes none and changes neither
\* the pages nor is_executable_.
C17_TwoCallsOneSyscall ==
  [][(/\ last_call.op = "SetExecutable"
      /\ last_call'.op = "SetExecutable"
      /\ last_call'.m = last_call.m
      /\ last_call'.executable = last_call.executable) =>
       /\ last_call.calls + last_call'.calls = 1
       /\ last_call'.calls = 0
       /\ UNCHANGED <<page_perm, is_executable_>>]_vars

\* C17: when SetExecutable(x) has returned true, a second SetExecutable(x)
\* right after it makes no SetPermissions call, returns true and changes
\* neither the pages nor is_executable_; the first call made no call when
\* write protection is off or the module was in state x already, and
\* otherwise one call per range (per reservation on V8_OS_WIN for a module
\* that can grow).
C17_SecondCallIsNoOp ==
  [][(/\ last_call.op = "SetExecutable"
      /\ last_call'.op = "SetExecutable"
      /\ last_call'.m = last_call.m
      /\ last_call'.executable = last_call.executable
      /\ last_call.ret) =>
       /\ last_call'.calls = 0
       /\ last_call'.ret
       /\ UNCHANGED <<page_perm, is_executable_>>
       /\ last_call.calls =
            IF \/ ~FLAG_wasm_write_protect_code_memory
               \/ last_call.was_executable = last_call.executable
              THEN 0
              ELSE last_call.ranges]_vars

\* C17: a SetExecutable that made two SetPermissions calls and returned
\* true was followed by a call with the same argument on a module in that
\* state, which made none.
C17_SecondOfTwoCalls ==
  /\ last_call.op = "SetExecutable"
  /\ last_call.was_executable = last_call.executable
  /\ last_call.calls = 0
  /\ last_call.ranges = 2
  /\ last_call.executable
  /\ FLAG_wasm_write_protect_code_memory
  /\ Cardinality({p \in Pages : page_perm[p] = "RX"}) = 2
  /\ \A p \in Pages : page_perm[p] # "RW"

\* C18 as stated: for every code object c of a live module, Lookup(c.end)
\* returns null.
C18_LookupAtEndIsNull ==
  \A m \in Modules :
    status[m] = "live" =>
      \A i \in 1..Len(owned_code_[m]) :
        Lookup(owned_code_[m], owned_code_[m][i].end) = kNullAddress

\* C18: for every code object c of a live module, Lookup(c.end) never
\* returns c: it returns the code object of the module that starts at c.end
\* when there is one, and null otherwise.
C18_LookupAtEndIsNotTheCode ==
  \A m \in Modules :
    status[m] = "live" =>
      \A i \in 1..Len(owned_code_[m]) :
        LET c     == owned_code_[m][i]
            found == Lookup(owned_code_[m], c.end)
            next  == {j \in 1..Len(owned_code_[m]) :
                        instruction_start(owned_code_[m][j]) = c.end}
        IN  /\ found # instruction_start(c)
            /\ next = {} => found = kNullAddress
            /\ next # {} => found = c.end

\* C18: a live module holds a code object that ends where the next one
\* starts and a code object that ends before the next one starts.
C18_AdjacentAndApartCode ==
  \E m \in Modules :
    /\ status[m] = "live"
    /\ Len(owned_code_[m]) = 3
    /\ owned_code_[m][1].end = owned_code_[m][2].start
    /\ owned_code_[m][2].end < owned_code_[m][3].start
    /\ Lookup(owned_code_[m], owned_code_[m][1].end) = owned_code_[m][2].start
    /\ Lookup(owned_code_[m], owned_code_[m][2].end) = kNullAddress

\* The code objects of live modules whose instructions hold {addr}, each
\* named by its module and its instruction start.
InstalledAt(addr) ==
  UNION {{[module |-> m, code |-> instruction_start(owned_code_[m][i])] :
            i \in {j \in 1..Len(owned_code_[m]) :
                     /\ owned_code_[m][j].start <= addr
                     /\ addr < owned_code_[m][j].end}} :
         m \in {x \in Modules : status[x] = "live"}}

\* C19: for every pc, at most one code object of a live module holds pc in
\* [start, end); LookupCode(pc) returns that code object when there is one and
\* null when there is none, also for code in a reservation the module got by
\* growing.
C19_LookupCodeFindsTheCode ==
  \A addr \in kNullAddress..AddrLimit :
    /\ Cardinality(InstalledAt(addr)) <= 1
    /\ InstalledAt(addr) = {} =>
         LookupCode(addr) = [module |-> "none", code |-> kNullAddress]
    /\ \A c \in InstalledAt(addr) : LookupCode(addr) = c

\* C19: a module that has grown holds code in its second reservation and
\* LookupCode finds it, while a second module is live and LookupCode finds
\* nothing in its reservation.
C19_CodeInGrownReservation ==
  /\ status["m1"] = "live" /\ status["m2"] = "live"
  /\ Len(owned_code_space_["m1"]) = 2
  /\ \E i \in 1..Len(owned_code_["m1"]) :
       LET c == owned_code_["m1"][i]
       IN  /\ owned_code_space_["m1"][2].start <= c.start
           /\ c.end <= owned_code_space_["m1"][2].end
           /\ LookupCode(c.end - 1) = [module |-> "m1", code |-> c.start]
  /\ Len(owned_code_space_["m2"]) = 1
  /\ LookupNativeModule(owned_code_space_["m2"][1].start) = "m2"
  /\ LookupCode(owned_code_space_["m2"][1].start) =
       [module |-> "none", code |-> kNullAddress]

\* The live modules whose Lookup finds a code object at {addr}.
ModulesFinding(addr) ==
  {m \in Modules :
     status[m] = "live" /\ Lookup(owned_code_[m], addr) # kNullAddress}

\* C20: for every pc, at most one live module has Lookup(pc) other than
\* null.
C20_OneModulePerAddress ==
  \A addr \in kNullAddress..AddrLimit : Cardinality(ModulesFinding(addr)) <= 1

\* C20: two live modules hold code, and each address that one of them finds
\* is unknown to the other.
C20_TwoModulesWithCode ==
  /\ \E addr \in kNullAddress..AddrLimit : ModulesFinding(addr) = {"m1"}
  /\ \E addr \in kNullAddress..AddrLimit : ModulesFinding(addr) = {"m2"}

\* C21: a Commit that finds remaining_uncommitted_code_space_ below its size
\* returns false and leaves the counter; one that finds at least its size
\* goes on to the CAS, which takes exactly the size from the counter, and
\* when the OS grants the pages it returns true without touching the
\* counter again.  So a request of just what is left leaves 0, and with 0
\* left every Commit returns false.
C21_CommitAgainstBudget ==
  [][\A t \in Threads :
       /\ (pc[t] = "commit_load" /\ pc'[t] # "commit_load") =>
            /\ remaining_uncommitted_code_space_'
                 = remaining_uncommitted_code_space_
            /\ IF remaining_uncommitted_code_space_ < ctx[t].size
                 THEN last_call' =
                        CommitReturn(t, ctx[t].size,
                                     remaining_uncommitted_code_space_, FALSE)
                 ELSE pc'[t] = "commit_cas" /\ last_call' = NoCall
       /\ (pc[t] = "commit_cas" /\ pc'[t] = "commit_perm") =>
            /\ remaining_uncommitted_code_space_ >= ctx[t].size
            /\ remaining_uncommitted_code_space_'
                 = remaining_uncommitted_code_space_ - ctx[t].size
       /\ (/\ pc[t] = "commit_perm"
           /\ last_call'.op = "Commit"
           /\ last_call'.t = t
           /\ last_call'.ret) =>
            /\ remaining_uncommitted_code_space_'
                 = remaining_uncommitted_code_space_
            /\ committed_code_space_'[ctx[t].m]
                 = committed_code_space_[ctx[t].m] + ctx[t].size]_vars

\* C21: Commit calls that asked for just what was left have brought the
\* counter to 0, and the next Commit has returned false.
C21_RefusedAtZero ==
  /\ last_call.op = "Commit"
  /\ ~last_call.ret
  /\ last_call.size > 0
  /\ last_call.old_value = 0
  /\ remaining_uncommitted_code_space_ = 0
  /\ SumCommitted(Modules) = max_committed

\* C22: when the OS refuses SetPermissions inside Commit, Commit returns
\* false and adds to remaining_uncommitted_code_space_ exactly the size it
\* had taken: unless another thread has moved the counter in between, the
\* counter is back at the value the call found.
C22_FailedCommitCreditsBack ==
  [][\A t \in Threads :
       (/\ pc[t] = "commit_perm"
        /\ last_call'.op = "Commit"
        /\ last_call'.t = t
        /\ ~last_call'.ret) =>
         /\ remaining_uncommitted_code_space_'
              = remaining_uncommitted_code_space_ + ctx[t].size
         /\ (remaining_uncommitted_code_space_
               = ctx[t].old_value - ctx[t].size)
              => remaining_uncommitted_code_space_' = ctx[t].old_value
         /\ UNCHANGED <<page_perm, committed_code_space_>>]_vars

\* C22: the OS has refused the pages of a Commit that was within the
\* budget, and the counter holds what the call found.
C22_RefusedByOs ==
  /\ last_call.op = "Commit"
  /\ ~last_call.ret
  /\ last_call.old_value >= last_call.size
  /\ last_call.old_value < max_committed
  /\ remaining_uncommitted_code_space_ = last_call.old_value

\* The code objects that hold a trap handler handle, each named by its
\* module and its position in owned_code_.
HandleHolders ==
  {c \in UNION {{<<m, i>> : i \in 1..Len(owned_code_[m])} : m \in Modules} :
     owned_code_[c[1]][c[2]].trap_handler_index >= 0}

C24_DisableTrapHandlerKeepsCode ==
  [][\A m \in Modules :
       (/\ status[m] = "live" /\ status'[m] = "live"
        /\ use_trap_handler_[m] /\ ~use_trap_handler_'[m]) =>
         /\ \A i \in DOMAIN code_table_'[m] :
              code_table_'[m][i] = kNullAddress
         /\ DOMAIN code_table_'[m] = DOMAIN code_table_[m]
         /\ owned_code_'[m] = owned_code_[m]
         /\ free_code_space_'[m] = free_code_space_[m]
         /\ allocated_code_space_'[m] = allocated_code_space_[m]
         /\ owned_code_space_'[m] = owned_code_space_[m]
         /\ committed_code_space_'[m] = committed_code_space_[m]
         /\ \A addr \in kNullAddress..AddrLimit :
              /\ Lookup(owned_code_'[m], addr) = Lookup(owned_code_[m], addr)
              /\ LookupCode(addr)' = LookupCode(addr)]_vars

\* C24: a module that no longer uses trap handlers has an empty code table
\* and still finds, by address, the two functions that were in it.
C24_LookupAfterDisable ==
  /\ status["m1"] = "live"
  /\ ~use_trap_handler_["m1"]
  /\ \A i \in DOMAIN code_table_["m1"] : code_table_["m1"][i] = kNullAddress
  /\ Cardinality({i \in 1..Len(owned_code_["m1"]) :
                    /\ owned_code_["m1"][i].kind = "kFunction"
                    /\ HasTrapHandlerIndex(owned_code_["m1"][i])
                    /\ LookupCode(owned_code_["m1"][i].end - 1)
                         = [module |-> "m1",
                            code |-> owned_code_["m1"][i].start]}) = 2

\* C25: when a Commit inside an install returns false because the budget
\* does not hold its size, the process is not aborted and the thread is
\* back with its caller, who may free another module and try again.
C25_BudgetExhaustionIsRecoverable ==
  (/\ last_call.op = "Commit"
   /\ ~last_call.ret
   /\ last_call.old_value < last_call.size) =>
    (~fatal /\ pc[last_call.t] = "idle")

\* C25: an install has run out of budget while another module that could
\* be freed holds committed memory, and the process is aborted.
C25_AbortedOnBudget ==
  /\ last_call.op = "Commit"
  /\ ~last_call.ret
  /\ last_call.old_value < last_call.size
  /\ fatal
  /\ pc[last_call.t] = "oom"
  /\ \E m \in Modules :
       /\ status[m] = "live"
       /\ Busy(m) = {}
       /\ committed_code_space_[m] >= last_call.size

\* C26: a thread that is inside an install on a module holds the module's
\* allocation mutex, so that at most one thread is inside an install on a
\* module at any time.
C26_MutexHeldForWholeInstall ==
  \A m \in Modules :
    LET installing ==
          {t \in Threads :
             /\ pc[t] \in {"commit_load", "commit_cas", "commit_perm",
                           "post", "reloc", "patch", "flush"}
             /\ ctx[t].m = m
             /\ status[m] = "live"}
    IN  /\ \A t \in installing : allocation_mutex_[m] = t
        /\ Cardinality(installing) <= 1

\* C26: one thread is about to patch the jump table for the code it added
\* and the other is about to relocate its own, in the same module, and no
\* one holds the mutex.
C26_TwoInstallsPastTheMutex ==
  /\ pc["t1"] = "patch" /\ ctx["t1"].m = "m1"
  /\ pc["t2"] = "reloc" /\ ctx["t2"].m = "m1"
  /\ allocation_mutex_["m1"] = NoThread

\* C27: active_ is the number of live modules and lookup_map_ holds exactly
\* one entry start -> (end, owner) for every reservation of a live module,
\* those added by growth included; the step that frees a module removes the
\* entries of that module and no other, after which LookupNativeModule is
\* null for every address of its former reservations.
C27_LookupMapTracksReservations ==
  /\ [](/\ active_ = Cardinality({m \in Modules : status[m] = "live"})
        /\ lookup_map_ =
             UNION {{[start |-> owned_code_space_[m][i].start,
                      end   |-> owned_code_space_[m][i].end,
                      owner |-> m] :
                       i \in {j \in 1..Len(owned_code_space_[m]) :
                                IsReserved(owned_code_space_[m][j])}} :
                    m \in {n \in Modules : status[n] = "live"}}
        /\ \A e \in lookup_map_ : \A f \in lookup_map_ :
             e.start = f.start => e = f)
  /\ [][\A m \in Modules :
          (status[m] = "live" /\ status'[m] = "none") =>
            /\ lookup_map_' = {e \in lookup_map_ : e.owner # m}
            /\ active_' = active_ - 1
            /\ \A addr \in SpaceAddrs(owned_code_space_[m]) :
                 /\ LookupNativeModule(addr) = m
                 /\ LookupNativeModule(addr)' = "none"]_vars

\* C27: a module that has grown into a second reservation and a second
\* module are both live: two modules, three entries, each found by the
\* start of its reservation.
C27_ThreeReservationsTwoModules ==
  /\ active_ = 2
  /\ Cardinality(lookup_map_) = 3
  /\ Len(owned_code_space_["m1"]) = 2
  /\ LookupNativeModule(owned_code_space_["m1"][2].start) = "m1"
  /\ LookupNativeModule(owned_code_space_["m2"][1].start) = "m2"
  /\ ~fatal

\* C28: whenever a thread holds an open modification scope on a module, the
\* module is not executable: is_executable_ is false and none of its pages
\* is executable.
C28_NonExecutableWhileScopeOpen ==
  \A m \in Modules :
    (\E t \in Threads : pc[t] = "in_scope" /\ ctx[t].m = m) =>
      /\ ~is_executable_[m]
      /\ \A p \in Pages :
           p * AllocatePageSize \in SpaceAddrs(owned_code_space_[m]) =>
             page_perm[p] # "RX"

\* C28: the destructor of one thread's scope has just set the module
\* executable, on executable pages, while the other thread's scope is open.
C28_SetExecutableUnderOpenScope ==
  /\ last_call.op = "SetExecutable"
  /\ last_call.executable
  /\ last_call.calls > 0
  /\ last_call.ret
  /\ is_executable_["m1"]
  /\ \E t \in Threads : pc[t] = "in_scope" /\ ctx[t].m = "m1"
  /\ \E p \in Pages : page_perm[p] = "RX"
  /\ ~fatal

\* C29: once every AddCode call on a module has returned, the jump table
\* slot of every function that has code in code_table_ jumps to the
\* instruction start of that code, whatever the interleaving of the calls
\* was.
C29_SlotFollowsCodeTable ==
  \A m \in Modules :
    (status[m] = "live" /\ Busy(m) = {}) =>
      \A f \in Declared(m) :
        code(m, f) # kNullAddress => SlotOf(m, f) = JumpSlot(code(m, f))

\* C29: both threads have returned from AddCode of function 1, which has
\* two code objects; code_table_ holds one of them and the jump table slot
\* jumps to the other.
C29_TableAndSlotDisagree ==
  /\ status["m1"] = "live"
  /\ \A t \in Threads : pc[t] = "idle"
  /\ Cardinality({i \in 1..Len(owned_code_["m1"]) :
                    owned_code_["m1"][i].index = 1}) = 2
  /\ code("m1", 1) # kNullAddress
  /\ SlotOf("m1", 1).kind = "jump"
  /\ SlotOf("m1", 1).target # code("m1", 1)
  /\ OwnsCode("m1", SlotOf("m1", 1).target, {"kFunction"}, 1)
  /\ OwnsCode("m1", code("m1", 1), {"kFunction"}, 1)
  /\ ~fatal

\* C30: on a module that cannot request more memory, AllocateForCode returns
\* kNullAddress exactly when no range of free_code_space_ holds the size
\* rounded up to kCodeAlignment, and then leaves free_code_space_,
\* allocated_code_space_, committed_code_space_, owned_code_space_ and
\* remaining_uncommitted_code_space_ as they were.
C30_NullWithoutGrowthChangesNothing ==
  [][\A m \in Modules :
       (status[m] = "live" /\ ~can_request_more_memory_[m]) =>
         /\ (last_call'.op = "AllocateForCode" /\ last_call'.m = m) =>
              /\ Fitting(free_code_space_[m],
                         RoundUp(last_call'.size, kCodeAlignment)) = {}
              /\ last_call'.ret = kNullAddress
              /\ free_code_space_'[m] = free_code_space_[m]
              /\ allocated_code_space_'[m] = allocated_code_space_[m]
              /\ committed_code_space_'[m] = committed_code_space_[m]
              /\ owned_code_space_'[m] = owned_code_space_[m]
              /\ remaining_uncommitted_code_space_' =
                   remaining_uncommitted_code_space_
              /\ UNCHANGED <<lookup_map_, page_perm>>
         /\ \A t \in Threads :
              (/\ pc[t] = "idle"
               /\ pc'[t] # "idle"
               /\ ctx'[t].m = m
               /\ Fitting(free_code_space_[m],
                          RoundUp(ctx'[t].call.size, kCodeAlignment)) = {}) =>
                /\ last_call'.op = "AllocateForCode"
                /\ last_call'.m = m
                /\ last_call'.size = ctx'[t].call.size]_vars

\* C30: AllocateForCode has returned kNullAddress on the module that cannot
\* grow, whose free_code_space_ holds a range that is too small for the
\* size asked for.
C30_NullOnFullModule ==
  /\ last_call.op = "AllocateForCode"
  /\ last_call.m = "m2"
  /\ last_call.ret = kNullAddress
  /\ ~can_request_more_memory_["m2"]
  /\ free_code_space_["m2"] # <<>>
  /\ Fitting(free_code_space_["m2"],
             RoundUp(last_call.size, kCodeAlignment)) = {}
  /\ Len(owned_code_space_["m2"]) = 1

\* The pages of the reservations of module {m} that are committed.
CommittedPages(m) ==
  {p \in Pages : /\ p * AllocatePageSize \in SpaceAddrs(owned_code_space_[m])
                 /\ page_perm[p] # "none"}

\* C31: as long as every AllocateForCode call on a module has succeeded and
\* none is running, every byte of allocated_code_space_ lies in a committed
\* page of the module and committed_code_space_ is the page size times the
\* number of its committed pages; a Commit that succeeds commits only pages
\* that were not committed before.
C31_AllocatedIsCommittedOnce ==
  /\ [](\A m \in Modules :
          (/\ status[m] = "live"
           /\ ~fatal
           /\ ~(\E u \in Threads : InCommit(u) /\ ctx[u].m = m)) =>
            /\ \A addr \in PoolAddrs(allocated_code_space_[m]) :
                 \E p \in CommittedPages(m) :
                   addr \in (p * AllocatePageSize) ..
                             ((p + 1) * AllocatePageSize - 1)
            /\ committed_code_space_[m] =
                 AllocatePageSize * Cardinality(CommittedPages(m)))
  /\ [][\A t \in Threads :
          (/\ pc[t] = "commit_perm"
           /\ committed_code_space_'[ctx[t].m] #
                committed_code_space_[ctx[t].m]) =>
            /\ \A p \in PagesOf(ctx[t].start, ctx[t].size) :
                 /\ page_perm[p] = "none"
                 /\ page_perm'[p] # "none"
                 /\ p * AllocatePageSize \in
                      SpaceAddrs(owned_code_space_[ctx[t].m])
            /\ committed_code_space_'[ctx[t].m] =
                 committed_code_space_[ctx[t].m]
                   + AllocatePageSize
                       * Cardinality(PagesOf(ctx[t].start, ctx[t].size))]_vars

\* C31: the module that can grow has code in two reservations, both
\* committed, after calls that all succeeded.
C31_TwoReservationsCommitted ==
  /\ ~fatal
  /\ \A t \in Threads : pc[t] = "idle"
  /\ Len(owned_code_space_["m1"]) = 2
  /\ Len(owned_code_["m1"]) >= 2
  /\ Cardinality(CommittedPages("m1")) = 2
  /\ committed_code_space_["m1"] = 2 * AllocatePageSize
  /\ \A i \in 1..2 :
       owned_code_space_["m1"][i].start \in PoolAddrs(allocated_code_space_["m1"])

\* C32: every code object starts at a multiple of kCodeAlignment, as does
\* every range of free_code_space_; and the step in which AllocateForCode
\* takes memory for {size} bytes returns the start of a free range (of the
\* pool as it is after a growth) and removes from the pool exactly the
\* RoundUp(size, kCodeAlignment) bytes from that address on, so that what
\* is left of the range starts that much further.
C32_ReturnedAddressesAreAligned ==
  /\ [](\A m \in Modules :
          /\ \A i \in 1..Len(owned_code_[m]) :
               instruction_start(owned_code_[m][i]) % kCodeAlignment = 0
          /\ \A i \in 1..Len(free_code_space_[m]) :
               free_code_space_[m][i].start % kCodeAlignment = 0)
  /\ [][\A t \in Threads :
          (pc[t] = "idle" /\ pc'[t] \notin {"idle", "oom"}) =>
            LET m == ctx'[t].m
                ret == IF InCommit(t)' THEN ctx'[t].mem.start
                                       ELSE ctx'[t].code
                asize == RoundUp(ctx'[t].call.size, kCodeAlignment)
                grown == SpaceAddrs(owned_code_space_'[m])
                           \ SpaceAddrs(owned_code_space_[m])
                pool == PoolAddrs(free_code_space_[m]) \cup grown
            IN  /\ ret # kNullAddress
                /\ ret % kCodeAlignment = 0
                /\ ret \in pool
                /\ (ret - 1) \notin pool
                /\ PoolAddrs(free_code_space_'[m]) =
                     pool \ (ret .. (ret + asize - 1))
                /\ (ret .. (ret + asize - 1)) \subseteq pool]_vars

\* C32: a code object of 5 bytes is followed at once, 6 bytes further, by
\* the code object allocated after it.
C32_NextCodeAfterRoundedSize ==
  \E m \in Modules : \E i \in 1..Len(owned_code_[m]) :
    \E j \in 1..Len(owned_code_[m]) :
      /\ owned_code_[m][i].end - owned_code_[m][i].start = 5
      /\ instruction_start(owned_code_[m][j]) =
           instruction_start(owned_code_[m][i]) + 6
      /\ ~fatal

\* C33: with FLAG_wasm_write_protect_code_memory, every committed page of a
\* module is RW while a modification scope is open on it, and every
\* committed page is RX once the outermost scope has been closed.
C33_PagesFollowTheScope ==
  /\ [](\A m \in Modules :
          (/\ FLAG_wasm_write_protect_code_memory
           /\ status[m] = "live"
           /\ modification_scope_depth_[m] > 0
           /\ ~fatal) =>
            \A p \in CommittedPages(m) : page_perm[p] = "RW")
  /\ [][\A m \in Modules :
          (/\ FLAG_wasm_write_protect_code_memory
           /\ modification_scope_depth_[m] = 1
           /\ modification_scope_depth_'[m] = 0
           /\ ~fatal') =>
            \A p \in CommittedPages(m)' : page_perm'[p] = "RX"]_vars

\* C33: the outermost scope has just been opened on a module that counts as
\* not executable, so that SetExecutable(false) called SetPermissions not
\* once, while a committed page of the module is RX.
C33_ScopeOpenOverExecutablePage ==
  /\ FLAG_wasm_write_protect_code_memory
  /\ modification_scope_depth_["m1"] = 1
  /\ ~is_executable_["m1"]
  /\ ~fatal
  /\ last_call.op = "SetExecutable"
  /\ ~last_call.executable
  /\ last_call.calls = 0
  /\ last_call.ret
  /\ \A t \in Threads : pc[t] = "idle"
  /\ \E p \in CommittedPages("m1") : page_perm[p] = "RX"

\* C34: a SetExecutable(x) that returns false has had a SetPermissions call
\* refused, whose pages and those of the calls not made are as before, and
\* leaves is_executable_ as it was; a SetExecutable(x) that returns true has
\* had every call it needed granted, so that every page it is responsible
\* for has the permission asked for, and leaves is_executable_ = x.
C34_SetExecutableReportsFailure ==
  [][last_call'.op = "SetExecutable" =>
       LET m == last_call'.m
           calls == PermissionCalls(m)
           needed == /\ FLAG_wasm_write_protect_code_memory
                     /\ is_executable_[m] # last_call'.executable
       IN  IF last_call'.ret
             THEN /\ is_executable_'[m] = last_call'.executable
                  /\ last_call'.calls = IF needed THEN Len(calls) ELSE 0
                  /\ needed =>
                       \A i \in 1..Len(calls) :
                         \A p \in PagesOf(calls[i].start, calls[i].size) :
                           page_perm'[p] =
                             IF last_call'.executable THEN "RX" ELSE "RW"
                  /\ ~needed => page_perm' = page_perm
             ELSE /\ needed
                  /\ is_executable_'[m] = is_executable_[m]
                  /\ last_call'.calls \in 1..Len(calls)
                  /\ \A i \in last_call'.calls..Len(calls) :
                       \A p \in PagesOf(calls[i].start, calls[i].size) :
                         (\A j \in 1..(last_call'.calls - 1) :
                            p \notin PagesOf(calls[j].start, calls[j].size))
                           => page_perm'[p] = page_perm[p]]_vars

\* C34: a SetExecutable(true) from outside a scope has had its second
\* SetPermissions call refused: it returned false, the module still counts
\* as not executable, and the page of the first call is RX.
C34_RefusedAtSecondCall ==
  /\ last_call.op = "SetExecutable"
  /\ last_call.executable
  /\ ~last_call.ret
  /\ last_call.calls = 2
  /\ ~last_call.was_executable
  /\ ~is_executable_[last_call.m]
  /\ modification_scope_depth_[last_call.m] = 0
  /\ ~fatal
  /\ \E p \in Pages : page_perm[p] = "RX"

\* C35: no step of an AddInterpreterEntry call changes code_table_, and when
\* the call for function f returns, its code object is owned by the module,
\* is of kind kInterpreterEntry and has index f, and the jump table slot of
\* f jumps to its instruction start.
C35_InterpreterEntryBypassesCodeTable ==
  [][\A t \in Threads :
       (/\ ctx[t].op = "AddInterpreterEntry" \/ ctx'[t].op = "AddInterpreterEntry"
        /\ <<pc[t], ctx[t]>> # <<pc'[t], ctx'[t]>>) =>
         /\ code_table_' = code_table_
         /\ (pc[t] = "post" /\ pc'[t] = "idle") =>
              LET m == ctx[t].m
                  f == ctx[t].call.arg
                  c == ctx[t].code
              IN  /\ \E i \in 1..Len(owned_code_'[m]) :
                       /\ instruction_start(owned_code_'[m][i]) = c
                       /\ owned_code_'[m][i].kind = "kInterpreterEntry"
                       /\ owned_code_'[m][i].index = f
                  /\ jump_table_slots'[m][f - num_imported_functions_[m] + 1]
                       = JumpSlot(c)]_vars

\* C35: a function without code in code_table_ has an interpreter entry, to
\* which its jump table slot jumps, and no call is running on the module.
C35_EntryForFunctionWithoutCode ==
  \E f \in Declared("m1") :
    /\ status["m1"] = "live"
    /\ Busy("m1") = {}
    /\ code("m1", f) = kNullAddress
    /\ SlotOf("m1", f).kind = "jump"
    /\ OwnsCode("m1", SlotOf("m1", f).target, {"kInterpreterEntry"}, f)

\* C36: every entry of code_table_ is null or the instruction start of a
\* code object that the same module owns and whose index is the function of
\* the entry; so an entry is null as long as no code object for its function
\* has been installed.
C36_CodeTableHoldsOwnedCodeOfFunction ==
  \A m \in Modules :
    status[m] # "none" =>
      \A f \in Declared(m) :
        \/ code(m, f) = kNullAddress
        \/ /\ OwnsCode(m, code(m, f), {"kFunction", "kWasmToJsWrapper"}, f)
           /\ LookupCode(code(m, f)).module = m

\* C36: one declared function has code in code_table_ that AddCode
\* installed, another has an owned code object that carries its index (an
\* interpreter entry) and a null entry.
C36_OneEntrySetOneNull ==
  \E f \in Declared("m1") : \E g \in Declared("m1") :
    /\ code("m1", f) # kNullAddress
    /\ OwnsCode("m1", code("m1", f), {"kFunction"}, f)
    /\ code("m1", g) = kNullAddress
    /\ \E i \in 1..Len(owned_code_["m1"]) :
         /\ owned_code_["m1"][i].index = g
         /\ owned_code_["m1"][i].kind = "kInterpreterEntry"

\* C37: a call of NewNativeModule, whether or not the reservation that
\* follows succeeds, sends a critical memory pressure notification exactly
\* when more than one module is live and remaining_uncommitted_code_space_
\* is below the threshold (two pages here) at the call; no other step sends
\* one.
C37_NotificationOnPressure ==
  [][LET created == \E m \in Modules :
                      status[m] = "none" /\ status'[m] # "none"
         refused == /\ ~fatal /\ fatal'
                    /\ \A t \in Threads : pc[t] = "idle"
     IN  notified' =
           /\ created \/ refused
           /\ Cardinality({m \in Modules : status[m] = "live"}) > 1
           /\ remaining_uncommitted_code_space_ < 2 * AllocatePageSize]_vars

\* C37: a third module has been created while two were live and a page was
\* committed, and the notification was sent.
C37_NotifiedAtThirdModule ==
  /\ notified
  /\ active_ = 3
  /\ remaining_uncommitted_code_space_ < max_committed
  /\ ~fatal

\* C38: when AddCode or AddAnonymousCode returns, every stub call site of
\* the installed code holds the instruction start of the runtime stub its
\* tag names in the module's runtime_stub_table_, which is the start of an
\* owned code object of kind kRuntimeStub, and every other entry inside the
\* mode mask holds its source value plus (instruction start - source
\* buffer); the entries outside the mask keep their value.
C38_RelocatedWhenInstallReturns ==
  [][\A t \in Threads :
       (pc[t] \in {"flush", "post"} /\ pc'[t] = "idle") =>
         LET m == ctx[t].m
             src == ctx[t].call.reloc_info
             ret == owned_code_'[m][CodeAt(owned_code_'[m], ctx[t].code)]
         IN  /\ DOMAIN ret.reloc_info = DOMAIN src
             /\ \A k \in DOMAIN src :
                  /\ ret.reloc_info[k].rmode = src[k].rmode
                  /\ src[k].rmode = "WASM_STUB_CALL" =>
                       /\ ret.reloc_info[k].value =
                            runtime_stub_table_'[m][src[k].value]
                       /\ \E i \in DOMAIN owned_code_'[m] :
                            /\ owned_code_'[m][i].start =
                                 ret.reloc_info[k].value
                            /\ owned_code_'[m][i].kind = "kRuntimeStub"
                  /\ src[k].rmode = "INTERNAL_REFERENCE" =>
                       ret.reloc_info[k].value =
                         src[k].value + (ret.start - ctx[t].call.buffer)
                  /\ src[k].rmode = "COMMENT" =>
                       ret.reloc_info[k].value = src[k].value]_vars

\* C38 witness: an installed function whose three entries were walked: the
\* stub call holds the start of runtime stub 0 and the internal reference
\* has moved away from its source value.
C38_StubCallAndReferenceRelocated ==
  \E i \in DOMAIN owned_code_["m1"] :
     LET installed == owned_code_["m1"][i]
     IN  /\ installed.kind = "kFunction"
         /\ installed.writes = <<"copy", "reloc", "flush">>
         /\ Len(installed.reloc_info) = 3
         /\ runtime_stub_table_["m1"][0] # kNullAddress
         /\ installed.reloc_info[2].value = runtime_stub_table_["m1"][0]
         /\ installed.reloc_info[3].value # 3

\* C39: the instruction range of a code object is flushed at most once and
\* is not written after its flush, and when AddCode or AddAnonymousCode
\* returns, the range of the new code has been copied, relocated and then
\* flushed, in that order and once each.
C39_FlushedOnceAfterAllWrites ==
  /\ [](\A m \in Modules : \A i \in DOMAIN owned_code_[m] :
          owned_code_[m][i].writes \in
            {<<"copy">>, <<"copy", "reloc">>, <<"copy", "reloc", "flush">>})
  /\ [][\A t \in Threads :
          (/\ pc[t] \in {"flush", "post"}
           /\ pc'[t] = "idle"
           /\ ctx[t].op \in {"AddCode", "AddCodeCopy", "AddInterpreterEntry",
                             "SetLazyBuiltin", "SetRuntimeStubs"}) =>
            LET m == ctx[t].m
            IN  owned_code_'[m][CodeAt(owned_code_'[m], ctx[t].code)].writes
                  = <<"copy", "reloc", "flush">>]_vars

\* C39 witness: a function installed by AddCode and a wrapper installed by
\* AddAnonymousCode have both been flushed, while the jump table, which
\* neither of them installed, has not.
C39_FunctionAndWrapperFlushed ==
  /\ \A t \in Threads : pc[t] = "idle"
  /\ \E i, j, k \in DOMAIN owned_code_["m1"] :
       /\ owned_code_["m1"][i].kind = "kFunction"
       /\ owned_code_["m1"][i].tier # "kOther"
       /\ owned_code_["m1"][i].writes = <<"copy", "reloc", "flush">>
       /\ owned_code_["m1"][j].kind = "kWasmToJsWrapper"
       /\ owned_code_["m1"][j].writes = <<"copy", "reloc", "flush">>
       /\ owned_code_["m1"][k].kind = "kJumpTable"
       /\ owned_code_["m1"][k].writes = <<"copy">>

\* C40: a jump table slot targets code that AddCode installed only once
\* every relocation write to that code is done and its instruction range has
\* been flushed: in every state, the code object of tier Liftoff or TurboFan
\* that a slot jumps to has been copied, relocated and flushed.
C40_SlotTargetsFlushedCode ==
  \A m \in Modules : \A s \in DOMAIN jump_table_slots[m] :
     \A i \in DOMAIN owned_code_[m] :
        (/\ jump_table_slots[m][s].kind = "jump"
         /\ jump_table_slots[m][s].target = owned_code_[m][i].start
         /\ owned_code_[m][i].tier # "kOther") =>
          owned_code_[m][i].writes = <<"copy", "reloc", "flush">>

\* C40 witness: a thread is in AddCode between PatchJumpTable and
\* Assembler::FlushICache, and the slot of its function already jumps to its
\* code object.
C40_SlotPatchedBeforeFlush ==
  \E t \in Threads :
     /\ pc[t] = "flush"
     /\ ctx[t].op = "AddCode"
     /\ SlotOf(ctx[t].m, ctx[t].call.index) = JumpSlot(ctx[t].code)
====
